---------------------------- MODULE Spec2Model ----------------------------
(***************************************************************************)
(* Model of the css-first recommendation engine:                           *)
(*   - the intent classifier          (services/css/suggestions.ts)        *)
(*   - the cached documentation client (services/css/mdnClient.ts)         *)
(*   - the prose suggest pipeline      (services/css/suggestions.ts and    *)
(*                                      the suggest_css_solution handler)  *)
(*   - the keyword-list search         (searchLegacyKeywords)              *)
(*   - the support and confirm tools   (index.ts, services/mdnApi.ts)      *)
(* Text is modelled as TLA+ strings and every substring / pattern test is  *)
(* computed character by character, as String.includes and the literal     *)
(* alternations of the source's regular expressions do.                    *)
(***************************************************************************)
EXTENDS Integers, Sequences, FiniteSets, TLC

(***************************************************************************)
(* Bounds of the model.                                                    *)
(***************************************************************************)
\* longest task description, in words of Words
MaxDescWords == 2

\* the words task descriptions are made of
Words ==
    {"center", "Slide", "hover", "margin", "modal", "border", "scale",
     "responsive", "component"}

\* milliseconds the clock advances in one step, and how often it does
TickMs == 1200000
MaxTicks == 3

\* the fetchMDNData calls that can be in flight together
CallIds == {"call1", "call2"}

\* tier invocations after which no further call is made
MaxInvocations == 3

\* longest keyword list given to searchFeatures
MaxKeywords == 2

\* the properties the documentation client is asked for on its own
CacheProperties == {"display", "container-type"}

\* the project contexts a request may carry ("" is an absent context)
ProjectContexts == {"", "react with tailwind"}

(***************************************************************************)
(* Strings.                                                                *)
(***************************************************************************)
\* String.prototype.includes: sub occurs in s as a contiguous run of characters
Includes(s, sub) ==
    \E i \in 1..(Len(s) - Len(sub) + 1) : SubSeq(s, i, i + Len(sub) - 1) = sub

UpperToLower ==
    ("A" :> "a") @@ ("B" :> "b") @@ ("C" :> "c") @@ ("D" :> "d") @@ ("E" :> "e") @@
    ("F" :> "f") @@ ("G" :> "g") @@ ("H" :> "h") @@ ("I" :> "i") @@ ("J" :> "j") @@
    ("K" :> "k") @@ ("L" :> "l") @@ ("M" :> "m") @@ ("N" :> "n") @@ ("O" :> "o") @@
    ("P" :> "p") @@ ("Q" :> "q") @@ ("R" :> "r") @@ ("S" :> "s") @@ ("T" :> "t") @@
    ("U" :> "u") @@ ("V" :> "v") @@ ("W" :> "w") @@ ("X" :> "x") @@ ("Y" :> "y") @@
    ("Z" :> "z")

RECURSIVE toLowerCase(_)
\* String.prototype.toLowerCase on ASCII text
toLowerCase(s) ==
    IF Len(s) = 0 THEN ""
    ELSE IF Len(s) = 1
         THEN (IF s \in DOMAIN UpperToLower THEN UpperToLower[s] ELSE s)
    ELSE LET half == Len(s) \div 2
         IN  toLowerCase(SubSeq(s, 1, half)) \o toLowerCase(SubSeq(s, half + 1, Len(s)))

RECURSIVE Join(_, _)
\* Array.prototype.join(sep)
Join(ws, sep) ==
    IF Len(ws) = 0 THEN ""
    ELSE IF Len(ws) = 1 THEN ws[1]
    ELSE ws[1] \o sep \o Join(Tail(ws), sep)

Range(s) == {s[i] : i \in DOMAIN s}

\* F(x), with x evaluated once however often F uses it
Bind(x, F(_)) == CHOOSE r \in {F(v) : v \in {x}} : TRUE

\* Dedup keeping every occurrence
Dedup_none(xs) == xs

\* [...new Set(xs)]: first occurrences, in order
RECURSIVE Dedup(_)
Dedup(xs) ==
    IF Len(xs) = 0 THEN <<>>
    ELSE LET x == xs[Len(xs)]
         IN  Bind(Dedup(SubSeq(xs, 1, Len(xs) - 1)),
                  LAMBDA front : IF x \in Range(front) THEN front ELSE Append(front, x))

(***************************************************************************)
(* Intent classifier: suggestions.ts, analyzeTaskIntent.                   *)
(* A pattern /(?:a|b|c)/i is the set of its literal alternatives; it       *)
(* matches when one of them occurs in the description, case-insensitively. *)
(* A ratio is kept exact, as the pair of its numerator and denominator.    *)
(***************************************************************************)
INTENT_PATTERNS == <<
    [type |-> "layout",
     patterns |-> << {"arrange", "organize", "position", "place", "layout"},
                     {"center", "align", "justify", "distribute"},
                     {"column", "row", "grid", "flex"},
                     {"beside", "above", "below", "next to", "in a row"} >>,
     categories |-> <<"layout">>],
    [type |-> "animation",
     patterns |-> << {"animate", "transition", "move", "slide", "fade", "hover"},
                     {"smooth", "ease", "duration", "timing"},
                     {"transform", "translate", "rotate", "scale"} >>,
     categories |-> <<"animation">>],
    [type |-> "spacing",
     patterns |-> << {"space", "spacing", "gap", "margin", "padding"},
                     {"between", "around", "inside", "outside"},
                     {"tight", "loose", "compressed", "expanded"} >>,
     categories |-> <<"logical">>],
    [type |-> "responsive",
     patterns |-> << {"responsive", "mobile", "tablet", "desktop", "breakpoint"},
                     {"small screen", "large screen", "different sizes"},
                     {"adapt", "resize", "scale", "fit"} >>,
     categories |-> <<"responsive">>],
    [type |-> "visual",
     patterns |-> << {"color", "background", "border", "shadow", "gradient"},
                     {"appearance", "style", "design", "look"},
                     {"opacity", "transparency", "blur"} >>,
     categories |-> <<"visual">>],
    [type |-> "interaction",
     patterns |-> << {"click", "hover", "focus", "active", "disabled"},
                     {"interactive", "button", "link", "form"},
                     {"state", "feedback", "response"} >>,
     categories |-> <<"interaction">>] >>

FRAMEWORK_INDICATORS == <<
    [framework |-> "react",     indicators |-> <<"component", "jsx", "react", "useState", "useEffect">>],
    [framework |-> "vue",       indicators |-> <<"template", "v-if", "v-for", "vue", "composition">>],
    [framework |-> "angular",   indicators |-> <<"angular", "component", "directive", "ngIf", "ngFor">>],
    [framework |-> "tailwind",  indicators |-> <<"tailwind", "tw-", "class=", "className=">>],
    [framework |-> "bootstrap", indicators |-> <<"bootstrap", "btn-", "col-", "row", "container">>] >>

\* RegExp.prototype.test of a case-insensitive alternation of literals
PatternTest(pattern, description) ==
    LET lowered == toLowerCase(description)
    IN  \E literal \in pattern : Includes(lowered, literal)

\* body of the inner loop: one pattern of one category (suggestions.ts 101-107)
PatternStep(acc, pattern, description) ==
    LET hit == PatternTest(pattern, description)
    IN  [acc EXCEPT !.totalPatterns = @ + 1,
                    !.intentMatches = IF hit THEN @ + 1 ELSE @,
                    !.totalMatches  = IF hit THEN @ + 1 ELSE @]

RECURSIVE PatternLoop(_, _, _)
PatternLoop(patterns, description, acc) ==
    IF Len(patterns) = 0 THEN acc
    ELSE PatternLoop(Tail(patterns), description,
                     PatternStep(acc, Head(patterns), description))

\* IntentStep with the pattern count kept only for a detected category
IntentStep_detectedOnly(acc, config, description) ==
    LET a == PatternLoop(config.patterns, description,
                         [acc EXCEPT !.intentMatches = 0])
    IN  IF a.intentMatches > 0
        THEN [a EXCEPT !.intent = Append(@, config.type),
                       !.suggestedCategories = @ \o config.categories]
        ELSE acc

\* body of the outer loop: one category (suggestions.ts 99-113)
IntentStep(acc, config, description) ==
    LET a == PatternLoop(config.patterns, description,
                         [acc EXCEPT !.intentMatches = 0])
    IN  IF a.intentMatches > 0
        THEN [a EXCEPT !.intent = Append(@, config.type),
                       !.suggestedCategories = @ \o config.categories]
        ELSE a

RECURSIVE IntentLoop(_, _, _)
IntentLoop(table, description, acc) ==
    IF Len(table) = 0 THEN acc
    ELSE IntentLoop(Tail(table), description,
                    IntentStep(acc, Head(table), description))

\* Confidence with the operands of the division exchanged
Confidence_swapped(totalMatches, totalPatterns) ==
    IF totalPatterns > 0
    THEN [num |-> totalPatterns, den |-> totalMatches]
    ELSE [num |-> 0, den |-> 1]

\* const confidence = totalPatterns > 0 ? totalMatches / totalPatterns : 0
Confidence(totalMatches, totalPatterns) ==
    IF totalPatterns > 0
    THEN [num |-> totalMatches, den |-> totalPatterns]
    ELSE [num |-> 0, den |-> 1]

\* the framework detection loop over the description (suggestions.ts 124-130)
RECURSIVE FrameworkLoop(_, _)
FrameworkLoop(table, description) ==
    IF Len(table) = 0 THEN <<>>
    ELSE LET e   == Head(table)
             hit == \E i \in DOMAIN e.indicators :
                        Includes(toLowerCase(description), e.indicators[i])
         IN  (IF hit THEN <<e.framework>> ELSE <<>>)
                \o FrameworkLoop(Tail(table), description)

\* context analyzer: framework and css framework named in the context text,
\* nothing for an absent ("") context
analyzeProjectContext(projectContext) ==
    LET c == toLowerCase(projectContext)
    IN  [framework    |-> IF Includes(c, "react") /\ Len(c) > 0 THEN "react"
                          ELSE IF Includes(c, "vue") /\ Len(c) > 0 THEN "vue"
                          ELSE "",
         cssFramework |-> IF Includes(c, "tailwind") /\ Len(c) > 0 THEN "tailwind"
                          ELSE IF Includes(c, "bootstrap") /\ Len(c) > 0 THEN "bootstrap"
                          ELSE ""]

(***************************************************************************)
(* Keyword extractor: suggestions.ts, extractLegacyKeywords.               *)
(***************************************************************************)
cssProperties ==
    <<"height", "width", "position", "display", "flex", "grid", "margin",
      "padding", "border", "background", "color", "font", "text", "transform",
      "transition", "animation">>

\* for (const prop of cssProperties) if (lowerDescription.includes(prop)) push
RECURSIVE DirectProperties(_, _)
DirectProperties(props, lowerDescription) ==
    IF Len(props) = 0 THEN <<>>
    ELSE (IF Includes(lowerDescription, Head(props)) THEN <<Head(props)>> ELSE <<>>)
            \o DirectProperties(Tail(props), lowerDescription)

\* if (cond) keywords.push(...tokens)
When(cond, tokens) == IF cond THEN tokens ELSE <<>>

extractLegacyKeywords(description) ==
    LET d      == toLowerCase(description)
        has(x) == Includes(d, x)
    IN  Dedup(
            DirectProperties(cssProperties, d)
         \o When(has("full") /\ has("height"),
                 <<"height", "100vh", "100dvh", "dvh", "svh", "lvh", "block-size", "min-height">>)
         \o When(has("mobile") \/ has("phone"),
                 <<"dvh", "svh", "lvh", "mobile-viewport", "browser-ui", "@media">>
                 \o When(has("height") \/ has("screen") \/ has("full"),
                         <<"100dvh", "height", "block-size", "viewport-height">>))
         \o When(has("header"),
                 <<"header">>
                 \o When(has("stick") \/ has("fix"), <<"sticky", "fixed", "position">>)
                 \o When(has("full") \/ has("height"),
                         <<"height", "min-height", "dvh", "100dvh">>))
         \o When(has("center") \/ has("align"),
                 <<"center", "align", "justify-content", "align-items", "flex", "grid">>)
         \o When(has("carousel") \/ has("slider") \/ has("gallery"),
                 <<"scroll-snap-type", "overflow-inline", "scroll-behavior",
                   "::scroll-marker", "::scroll-button", "flex">>)
         \o When(has("theme") \/ has("dark") \/ has("light"),
                 <<"light-dark", "color-scheme", "prefers-color-scheme", "@media">>)
         \o When(has("form"),
                 <<"form">>
                 \o When(has("valid") \/ has("error"),
                         <<":user-valid", ":user-invalid", ":invalid", ":valid">>))
         \o When(has("modal") \/ has("dialog") \/ has("popup"),
                 <<"dialog", ":target", "position", "fixed", "backdrop-filter">>)
         \o When(has("nav") \/ has("menu"),
                 <<"nav", "menu">>
                 \o When(has("hamburger") \/ has("mobile"),
                         <<":checked", "position", "transform">>))
         \o When(has("animate") \/ has("transition"),
                 <<"animation", "transition", "@keyframes">>
                 \o When(has("scroll"), <<"scroll-timeline", "animation-timeline">>))
         \o When(has("responsive") \/ has("breakpoint"),
                 <<"@media", "container", "clamp", "min", "max">>)
         \o When(has("always"), <<"min-height", "100%", "vh", "dvh">>)
         \o When(has("section"), <<"section", "height", "min-height">>)
         \o When(has("device"), <<"dvh", "svh", "@media", "viewport">>))

(***************************************************************************)
(* analyzeTaskIntent, with the pattern table it iterates as a parameter.   *)
(***************************************************************************)
AnalyzeWith(table, description, projectContext) ==
    LET contextAnalysis == analyzeProjectContext(projectContext)
        acc == IntentLoop(table, description,
                          [intent |-> <<>>, suggestedCategories |-> <<>>,
                           intentMatches |-> 0, totalMatches |-> 0,
                           totalPatterns |-> 0])
        frameworkHints ==
               When(contextAnalysis.framework # "", <<contextAnalysis.framework>>)
            \o When(contextAnalysis.cssFramework # "", <<contextAnalysis.cssFramework>>)
            \o FrameworkLoop(FRAMEWORK_INDICATORS, description)
    IN  [keywords            |-> Dedup(extractLegacyKeywords(description)),
         intent              |-> Dedup(acc.intent),
         confidence          |-> Confidence(acc.totalMatches, acc.totalPatterns),
         suggestedCategories |-> Dedup(acc.suggestedCategories),
         frameworkHints      |-> Dedup(frameworkHints)]

analyzeTaskIntent(description, projectContext) ==
    AnalyzeWith(INTENT_PATTERNS, description, projectContext)

(***************************************************************************)
(* Documentation client: mdnClient.ts.                                     *)
(* A documentation text is kept as the sections the parser looks for: its  *)
(* "Syntax" section ("" when it has none) and the Chrome / Firefox /       *)
(* Safari versions of its browser section (<<>> when one is missing).      *)
(***************************************************************************)
CACHE_TTL == 1000 * 60 * 60

\* const cacheKey = `mdn_${cssProperty}`
cacheKey(cssProperty) == "mdn_" \o cssProperty

\* isCacheValid with the comparison turned around
isCacheValid_reversed(cacheEntry, t) == t - cacheEntry.timestamp > CACHE_TTL

\* Date.now() - cacheEntry.timestamp < CACHE_TTL
isCacheValid(cacheEntry, t) == t - cacheEntry.timestamp < CACHE_TTL

\* cached && isCacheValid(cached)
CacheHit(cache, cssProperty, t) ==
    /\ cacheKey(cssProperty) \in DOMAIN cache
    /\ isCacheValid(cache[cacheKey(cssProperty)], t)

\* CacheSet dropping the entries of the other keys
CacheSet_clearsOthers(cache, cssProperty, data, t) ==
    [k \in {cacheKey(cssProperty)} |-> [data |-> data, timestamp |-> t]]

\* mdnCache.set(cacheKey, { data, timestamp: Date.now() })
CacheSet(cache, cssProperty, data, t) ==
    [k \in DOMAIN cache \cup {cacheKey(cssProperty)} |->
        IF k = cacheKey(cssProperty) THEN [data |-> data, timestamp |-> t]
        ELSE cache[k]]

\* the development texts of simulateContext7Response
simulateContext7Response(topic) ==
    CASE topic = "container-type" ->
            [id |-> "mock:container-type",
             syntax |-> "container-type: normal | size | inline-size",
             browsers |-> <<105, 110, 16>>]
      [] topic = "color-mix" ->
            [id |-> "mock:color-mix",
             syntax |-> "color-mix(in <colorspace>, <color> [<percentage>], <color> [<percentage>])",
             browsers |-> <<111, 113, 16>>]
      [] topic = "dvh" ->
            [id |-> "mock:dvh", syntax |-> "<length-percentage>",
             browsers |-> <<108, 101, 15>>]
      [] topic = ":has" ->
            [id |-> "mock:has", syntax |-> ":has(<relative-selector-list>)",
             browsers |-> <<105, 121, 15>>]
      [] OTHER ->
            [id |-> "generic:" \o topic, syntax |-> "", browsers |-> <<>>]

\* extractSyntax: the Syntax section, or `${property}: <value>`
extractSyntax(content, property) ==
    IF content.syntax # "" THEN content.syntax ELSE property \o ": <value>"

\* extractBrowserSupport: 80 unless all three versions are found and old enough
extractBrowserSupport(content) ==
    LET b == content.browsers
    IN  [overall_support |->
             IF Len(b) = 3
             THEN IF b[1] <= 100 /\ b[2] <= 100 /\ b[3] <= 15 THEN 95
                  ELSE IF b[1] <= 110 /\ b[2] <= 110 /\ b[3] <= 16 THEN 90
                  ELSE 80
             ELSE 80,
         modern_browsers |-> TRUE,
         legacy_support |-> "good"]

parseContext7Response(content, cssProperty) ==
    [kind |-> "parsed",
     property |-> cssProperty,
     syntax |-> extractSyntax(content, cssProperty),
     browserSupport |-> extractBrowserSupport(content),
     content |-> content.id]

\* getActualMDNContent is simulateContext7Response; the parsed result is an
\* object, so the caller's `if (response)` always takes it
callContext7MCP(cssProperty) ==
    parseContext7Response(simulateContext7Response(cssProperty), cssProperty)

\* What the host's context7 tool does on one call: it is not installed
\* ("absent"), its fetch rejects ("throws"), it answers without content
\* ("empty"), or it answers with a documentation text ("content").
ExternalDocs ==
    { [id |-> "mdn:v1", syntax |-> "", browsers |-> <<90, 88, 14>>],
      [id |-> "mdn:v2", syntax |-> "<value>", browsers |-> <<>>] }

Context7Outcomes ==
    { [kind |-> "absent"], [kind |-> "throws"], [kind |-> "empty"] }
        \cup { [kind |-> "content", content |-> d] : d \in ExternalDocs }

\* fetchFromContext7: a value, or the error rethrown by its catch
fetchFromContext7(cssProperty, c7) ==
    CASE c7.kind = "content" ->
            [ok |-> TRUE, value |-> parseContext7Response(c7.content, cssProperty)]
      [] c7.kind = "throws" ->
            [ok |-> FALSE, value |-> [kind |-> "error", property |-> cssProperty]]
      [] OTHER ->
            [ok |-> TRUE, value |-> callContext7MCP(cssProperty)]

\* What the network does on one direct fetch.
DirectOutcomes == {"ok", "not-ok", "network-error"}

\* fetchMDNPageDirect: the page text, or an error
fetchMDNPageDirect(cssProperty, net) ==
    IF net = "ok"
    THEN [ok |-> TRUE,
          value |-> [kind |-> "page", property |-> cssProperty,
                     text |-> "html:" \o cssProperty]]
    ELSE [ok |-> FALSE, value |-> [kind |-> "error", property |-> cssProperty]]

(***************************************************************************)
(* Feature catalog, in the order the feature modules are spread into       *)
(* CSS_FEATURES.  mdn_url is the path below                                *)
(* https://developer.mozilla.org/en-US/docs/Web/CSS/.                      *)
(***************************************************************************)
FLEXBOX_FEATURES == <<
    [key |-> "flexbox", name |-> "Flexbox", category |-> "layout",
     properties |-> <<"display", "flex-direction", "justify-content", "align-items",
                      "flex-wrap", "flex-flow", "gap", "row-gap", "column-gap", "flex",
                      "flex-grow", "flex-shrink", "flex-basis", "flex-order">>,
     description |-> "Flexible box layout for one-dimensional layouts",
     support_level |-> "excellent", mdn_url |-> "CSS_Flexible_Box_Layout"] >>

GRID_FEATURES == <<
    [key |-> "grid", name |-> "CSS Grid", category |-> "layout",
     properties |-> <<"display", "grid-template-columns", "grid-template-rows", "gap",
                      "row-gap", "column-gap", "grid-column", "grid-row",
                      "grid-column-start", "grid-column-end", "grid-row-start",
                      "grid-row-end", "grid-area", "grid-template-areas", "grid-template">>,
     description |-> "Two-dimensional grid layout system",
     support_level |-> "excellent", mdn_url |-> "CSS_Grid_Layout"] >>

ANIMATION_FEATURES == <<
    [key |-> "transitions", name |-> "CSS Transitions", category |-> "animation",
     properties |-> <<"transition", "transition-property", "transition-duration",
                      "transition-timing-function", "transition-delay">>,
     description |-> "Smooth animations between property changes",
     support_level |-> "excellent", mdn_url |-> "CSS_Transitions"],
    [key |-> "animations", name |-> "CSS Animations", category |-> "animation",
     properties |-> <<"animation", "keyframes", "animation-name", "animation-duration",
                      "animation-timing-function", "animation-delay",
                      "animation-iteration-count", "animation-direction",
                      "animation-fill-mode", "animation-play-state">>,
     description |-> "Complex keyframe-based animations",
     support_level |-> "excellent", mdn_url |-> "CSS_Animations"] >>

VISUAL_FEATURES == <<
    [key |-> "gradients", name |-> "CSS Gradients", category |-> "visual",
     properties |-> <<"background-image", "linear-gradient", "radial-gradient",
                      "conic-gradient", "repeating-linear-gradient",
                      "repeating-radial-gradient">>,
     description |-> "Smooth color transitions and gradient backgrounds",
     support_level |-> "excellent", mdn_url |-> "CSS_Images/Using_CSS_gradients"],
    [key |-> "transforms", name |-> "CSS Transforms", category |-> "visual",
     properties |-> <<"transform", "transform-origin", "transform-style", "perspective",
                      "perspective-origin", "backface-visibility", "scale", "rotate",
                      "translate", "skew">>,
     description |-> "2D and 3D transformations of elements",
     support_level |-> "excellent", mdn_url |-> "CSS_Transforms"],
    [key |-> "border-logical", name |-> "Logical Border Properties", category |-> "visual",
     properties |-> <<"border-inline", "border-block", "border-inline-start",
                      "border-inline-end", "border-block-start", "border-block-end",
                      "border-inline-width", "border-block-width", "border-inline-style",
                      "border-block-style", "border-inline-color", "border-block-color">>,
     description |-> "Logical border properties that adapt to writing direction",
     support_level |-> "good", mdn_url |-> "CSS_Logical_Properties"],
    [key |-> "overflow-logical", name |-> "Logical Overflow Properties", category |-> "layout",
     properties |-> <<"overflow-inline", "overflow-block", "text-overflow", "overflow-wrap",
                      "overflow-anchor", "overflow-clip-margin">>,
     description |-> "Logical overflow properties for directional content handling",
     support_level |-> "good", mdn_url |-> "CSS_Overflow"] >>

RESPONSIVE_FEATURES == <<
    [key |-> "container-queries", name |-> "Container Queries", category |-> "responsive",
     properties |-> <<"container-type", "container-name", "container", "@container">>,
     description |-> "Responsive design based on container size rather than viewport",
     support_level |-> "moderate", mdn_url |-> "CSS_Container_Queries"],
    [key |-> "media-queries", name |-> "Media Queries", category |-> "responsive",
     properties |-> <<"@media", "min-width", "max-width", "min-height", "max-height",
                      "orientation", "aspect-ratio", "prefers-color-scheme",
                      "prefers-reduced-motion">>,
     description |-> "Responsive design based on device characteristics",
     support_level |-> "excellent", mdn_url |-> "Media_Queries"] >>

INTERACTION_FEATURES == <<
    [key |-> "scroll-snap", name |-> "CSS Scroll Snap", category |-> "interaction",
     properties |-> <<"scroll-snap-type", "scroll-snap-align", "scroll-snap-stop",
                      "scroll-behavior", "scroll-padding", "scroll-margin",
                      "scroll-padding-top", "scroll-padding-right",
                      "scroll-padding-bottom", "scroll-padding-left",
                      "scroll-margin-top", "scroll-margin-right",
                      "scroll-margin-bottom", "scroll-margin-left">>,
     description |-> "Control scroll snapping behavior for carousels and scrollable content",
     support_level |-> "good", mdn_url |-> "CSS_Scroll_Snap"],
    [key |-> "css-carousel", name |-> "Modern CSS Carousel with Pseudo-Elements",
     category |-> "interaction",
     properties |-> <<"::scroll-button()", "::scroll-marker-group", "::scroll-marker",
                      "::column", ":target-current">>,
     description |-> "Latest CSS carousel with auto-generated buttons and markers using pseudo-elements",
     support_level |-> "limited", mdn_url |-> "CSS_overflow/CSS_carousels"] >>

\* Object.values(CSS_FEATURES)
CSS_FEATURES ==
    FLEXBOX_FEATURES \o GRID_FEATURES \o ANIMATION_FEATURES \o VISUAL_FEATURES
        \o RESPONSIVE_FEATURES \o INTERACTION_FEATURES

\* `${feature.name} ${feature.description} ${feature.properties.join(" ")}`
\* .toLowerCase()
featureText(feature) ==
    toLowerCase(feature.name \o " " \o feature.description \o " "
                    \o Join(feature.properties, " "))

FeatureTexts == [i \in DOMAIN CSS_FEATURES |-> featureText(CSS_FEATURES[i])]

\* searchFeatures comparing the keywords as they are written
searchFeatures_caseSensitive(keywords) ==
    LET some(i) == \E k \in DOMAIN keywords : Includes(FeatureTexts[i], keywords[k])
        hits    == SelectSeq([i \in DOMAIN CSS_FEATURES |-> i], some)
    IN  [n \in DOMAIN hits |-> CSS_FEATURES[hits[n]]]

\* searchFeatures: the features one of the keywords occurs in, in catalog order
searchFeatures(keywords) ==
    LET lowered == [k \in DOMAIN keywords |-> toLowerCase(keywords[k])]
        some(i) == \E k \in DOMAIN lowered : Includes(FeatureTexts[i], lowered[k])
        hits    == SelectSeq([i \in DOMAIN CSS_FEATURES |-> i], some)
    IN  [n \in DOMAIN hits |-> CSS_FEATURES[hits[n]]]

(***************************************************************************)
(* Suggestion engine: suggestions.ts, searchMDNForCSSProperties for a      *)
(* prose description.  A run of the engine is given the cache it starts    *)
(* from, the time t, and the environment env of its fetches:               *)
(*   env.throwsFor  the properties for which the context7 tool rejects     *)
(*   env.c7         what the tool does for every other property            *)
(*   env.net        what the network does on a direct fetch                *)
(* An awaited call returns its value together with the cache it leaves.    *)
(***************************************************************************)
shouldIncludeBasedOnApproach(supportLevel, approach) ==
    CASE approach = "modern"      -> supportLevel \in {"excellent", "good", "experimental"}
      [] approach = "compatible"  -> supportLevel = "excellent"
      [] approach = "progressive" -> TRUE
      [] OTHER                    -> TRUE

\* calculateRelevanceScore without the confidence multiplier
calculateRelevanceScore_noMultiplier(feature, analysis) ==
    LET has(xs, x) == x \in Range(xs)
        score ==
              (IF has(analysis.intent, "layout") /\ feature.category = "layout" THEN 10 ELSE 0)
            + (IF has(analysis.intent, "animation") /\ feature.category = "animation" THEN 10 ELSE 0)
            + (IF has(analysis.intent, "spacing") /\ feature.category = "logical" THEN 10 ELSE 0)
            + (IF feature.support_level = "excellent" THEN 5 ELSE 0)
            + (IF feature.support_level = "good" THEN 3 ELSE 0)
            + (IF has(analysis.frameworkHints, "react") /\ has(feature.properties, "flex")
               THEN 3 ELSE 0)
            + (IF has(analysis.frameworkHints, "tailwind") /\ has(feature.properties, "grid")
               THEN 3 ELSE 0)
    IN  [num |-> score, den |-> 1]

\* calculateRelevanceScore: score * (1 + confidence), as an exact ratio
calculateRelevanceScore(feature, analysis) ==
    LET has(xs, x) == x \in Range(xs)
        score ==
              (IF has(analysis.intent, "layout") /\ feature.category = "layout" THEN 10 ELSE 0)
            + (IF has(analysis.intent, "animation") /\ feature.category = "animation" THEN 10 ELSE 0)
            + (IF has(analysis.intent, "spacing") /\ feature.category = "logical" THEN 10 ELSE 0)
            + (IF feature.support_level = "excellent" THEN 5 ELSE 0)
            + (IF feature.support_level = "good" THEN 3 ELSE 0)
            + (IF has(analysis.frameworkHints, "react") /\ has(feature.properties, "flex")
               THEN 3 ELSE 0)
            + (IF has(analysis.frameworkHints, "tailwind") /\ has(feature.properties, "grid")
               THEN 3 ELSE 0)
        c == analysis.confidence
    IN  [num |-> score * (c.den + c.num), den |-> c.den]

\* supportMap[cssProperty] || 80
getBrowserSupportPercentage(cssProperty) ==
    CASE cssProperty \in {"display", "overflow-x"} -> 98
      [] cssProperty = "flex" -> 95
      [] cssProperty = "grid" -> 92
      [] cssProperty \in {"scroll-snap-type", "scroll-snap-align"} -> 85
      [] cssProperty = "transition" -> 96
      [] cssProperty = "transform" -> 94
      [] cssProperty \in {"container-type", "container-name", "@container"} -> 75
      [] cssProperty \in {"::scroll-button()", "::scroll-marker-group",
                          "::scroll-marker", "::column"} -> 15
      [] cssProperty = ":target-current" -> 20
      [] OTHER -> 80

\* experimentalMap[cssProperty] || []
getExperimentalFeatures(cssProperty) ==
    CASE cssProperty = "container-type" ->
            <<"container-query-length", "container-query-inline-size">>
      [] cssProperty = "scroll-snap-type" -> <<"scroll-snap-stop">>
      [] cssProperty = "transform" -> <<"transform-style", "perspective">>
      [] OTHER -> <<>>

\* what the context7 tool does when asked for this property
C7For(env, cssProperty) ==
    IF cssProperty \in env.throwsFor THEN [kind |-> "throws"] ELSE env.c7

\* fetchMDNData from its call to its return
fetchMDNData(cache, cssProperty, t, env) ==
    IF CacheHit(cache, cssProperty, t)
    THEN [ok |-> TRUE, value |-> cache[cacheKey(cssProperty)].data, cache |-> cache]
    ELSE LET mdnData == fetchFromContext7(cssProperty, C7For(env, cssProperty))
         IN  IF mdnData.ok
             THEN [ok |-> TRUE, value |-> mdnData.value,
                   cache |-> CacheSet(cache, cssProperty, mdnData.value, t)]
             ELSE LET page == fetchMDNPageDirect(cssProperty, env.net)
                  IN  [ok |-> page.ok, value |-> page.value, cache |-> cache]

\* the browsers object written out in fetchBrowserSupportFromMDN
DefaultBrowsers ==
    [chrome |-> "90+", firefox |-> "88+", safari |-> "14+", edge |-> "90+"]

\* mdnData.browserSupport?.browsers || { chrome: ..., ... }
BrowsersOf(mdnData) ==
    IF /\ mdnData.ok
       /\ mdnData.value.kind = "parsed"
       /\ "browsers" \in DOMAIN mdnData.value.browserSupport
    THEN mdnData.value.browserSupport.browsers
    ELSE DefaultBrowsers

\* fetchBrowserSupportFromMDN giving the experimental features whatever the flag
fetchBrowserSupportFromMDN_ignoresFlag(cache, cssProperty, includeExperimental, t, env) ==
    LET mdnData == fetchMDNData(cache, cssProperty, t, env)
        fetched == mdnData.ok /\ mdnData.value.kind = "parsed"
                      /\ mdnData.value.browserSupport.overall_support # 0
    IN  [ok |-> TRUE,
         value |->
            [overall_support |->
                 IF fetched THEN mdnData.value.browserSupport.overall_support
                 ELSE getBrowserSupportPercentage(cssProperty),
             browsers |-> BrowsersOf(mdnData),
             experimental_features |-> getExperimentalFeatures(cssProperty),
             source |-> IF fetched THEN "mdn" ELSE "static"],
         cache |-> mdnData.cache]

\* fetchBrowserSupportFromMDN without its catch: a failed fetch rejects
fetchBrowserSupportFromMDN_noCatch(cache, cssProperty, includeExperimental, t, env) ==
    LET mdnData == fetchMDNData(cache, cssProperty, t, env)
        fetched == mdnData.ok /\ mdnData.value.kind = "parsed"
                      /\ mdnData.value.browserSupport.overall_support # 0
    IN  [ok |-> mdnData.ok,
         value |->
            [overall_support |->
                 IF fetched THEN mdnData.value.browserSupport.overall_support
                 ELSE getBrowserSupportPercentage(cssProperty),
             browsers |-> BrowsersOf(mdnData),
             experimental_features |->
                 IF includeExperimental THEN getExperimentalFeatures(cssProperty)
                 ELSE <<>>,
             source |-> IF fetched THEN "mdn" ELSE "static"],
         cache |-> mdnData.cache]

\* fetchBrowserSupportFromMDN: the fetched figure, else the static one; a
\* page of text has no browserSupport, a failed fetch is caught, so the
\* promise always resolves (ok)
fetchBrowserSupportFromMDN(cache, cssProperty, includeExperimental, t, env) ==
    LET mdnData == fetchMDNData(cache, cssProperty, t, env)
        fetched == mdnData.ok /\ mdnData.value.kind = "parsed"
                      /\ mdnData.value.browserSupport.overall_support # 0
    IN  [ok |-> TRUE,
         value |->
            [overall_support |->
                 IF fetched THEN mdnData.value.browserSupport.overall_support
                 ELSE getBrowserSupportPercentage(cssProperty),
             browsers |-> BrowsersOf(mdnData),
             experimental_features |->
                 IF includeExperimental THEN getExperimentalFeatures(cssProperty)
                 ELSE <<>>,
             source |-> IF fetched THEN "mdn" ELSE "static"],
         cache |-> mdnData.cache]

\* generateBrowserSupportRecommendation with every threshold excluded (>)
generateBrowserSupportRecommendation_exclusive(supportInfo) ==
    IF supportInfo.overall_support > 95
    THEN "Excellent browser support - safe to use in production"
    ELSE IF supportInfo.overall_support > 85
    THEN "Good browser support - consider fallbacks for legacy browsers"
    ELSE IF supportInfo.overall_support > 70
    THEN "Moderate browser support - use with caution and provide fallbacks"
    ELSE "Limited browser support - consider alternative approaches"

\* generateBrowserSupportRecommendation
generateBrowserSupportRecommendation(supportInfo) ==
    IF supportInfo.overall_support >= 95
    THEN "Excellent browser support - safe to use in production"
    ELSE IF supportInfo.overall_support >= 85
    THEN "Good browser support - consider fallbacks for legacy browsers"
    ELSE IF supportInfo.overall_support >= 70
    THEN "Moderate browser support - use with caution and provide fallbacks"
    ELSE "Limited browser support - consider alternative approaches"

\* the result object the check_css_browser_support handler builds from the
\* support information
SupportResult(css_property, supportInfo) ==
    [kind |-> "result",
     property |-> css_property,
     browser_support |-> supportInfo,
     recommendation |-> generateBrowserSupportRecommendation(supportInfo),
     safe_to_use |-> supportInfo.overall_support >= 80]

\* the check_css_browser_support tool handler
CheckSupportHandler(css_property, include_experimental, cache, t, env) ==
    Bind(fetchBrowserSupportFromMDN(cache, css_property, include_experimental, t, env),
         LAMBDA supportInfo :
        [response |->
            IF ~supportInfo.ok THEN [kind |-> "error"]
            ELSE SupportResult(css_property, supportInfo.value),
         cache |-> supportInfo.cache])

getFeatureSyntax(featureName) == featureName \o ": value;"

getFeatureUseCases(featureName) == <<"General styling", "UI enhancement">>

\* the browser_support object of a suggestion
SupportSummary(browserSupport) ==
    [overall_support |-> browserSupport.overall_support,
     modern_browsers |-> browserSupport.overall_support >= 85,
     legacy_support  |-> IF browserSupport.overall_support >= 70 THEN "good" ELSE "limited"]

\* createSuggestionFromFeature giving the suggestion a score for its tier
createSuggestionFromFeature_scored(feature, browserSupport) ==
    [property |-> feature.properties[1],
     description |-> feature.description,
     syntax |-> getFeatureSyntax(feature.name),
     browser_support |-> SupportSummary(browserSupport),
     use_cases |-> getFeatureUseCases(feature.name),
     mdn_url |-> feature.mdn_url,
     scored |-> TRUE,
     relevanceScore |-> [num |-> IF feature.support_level = "excellent" THEN 5 ELSE 0,
                         den |-> 1],
     feature |-> feature.key]

\* createSuggestionFromFeature; feature names the catalog entry it came from
createSuggestionFromFeature(feature, browserSupport) ==
    [property |-> feature.properties[1],
     description |-> feature.description,
     syntax |-> getFeatureSyntax(feature.name),
     browser_support |-> SupportSummary(browserSupport),
     use_cases |-> getFeatureUseCases(feature.name),
     mdn_url |-> feature.mdn_url,
     scored |-> FALSE,
     relevanceScore |-> [num |-> 0, den |-> 1],
     feature |-> feature.key]

\* the suggestion built in the category loop (suggestions.ts 330-350)
ScoredSuggestion(feature, mdnData, browserSupport, analysis) ==
    [property |-> feature.properties[1],
     description |-> feature.description,
     syntax |-> IF mdnData.kind = "parsed" /\ mdnData.syntax # ""
                THEN mdnData.syntax ELSE getFeatureSyntax(feature.name),
     browser_support |-> SupportSummary(browserSupport),
     use_cases |-> getFeatureUseCases(feature.name),
     mdn_url |-> feature.mdn_url,
     scored |-> TRUE,
     relevanceScore |-> calculateRelevanceScore(feature, analysis),
     feature |-> feature.key]

\* body of the category loop for one feature (suggestions.ts 325-352); the
\* first fetch is not guarded, so its rejection ends the whole search
CategoryStep(acc, feature, analysis, approach, t, env) ==
    IF acc.threw THEN acc
    ELSE LET p == feature.properties[1]
         IN  Bind(fetchMDNData(acc.cache, p, t, env), LAMBDA mdnData :
             IF ~mdnData.ok
             THEN [acc EXCEPT !.threw = TRUE, !.cache = mdnData.cache]
             ELSE Bind(fetchBrowserSupportFromMDN(mdnData.cache, p, FALSE, t, env),
                       LAMBDA browserSupport :
                  [acc EXCEPT
                         !.cache = browserSupport.cache,
                         !.suggestions =
                             IF shouldIncludeBasedOnApproach(feature.support_level, approach)
                             THEN Append(@, ScoredSuggestion(feature, mdnData.value,
                                                             browserSupport.value, analysis))
                             ELSE @]))

RECURSIVE CategoryLoop(_, _, _, _, _, _)
CategoryLoop(features, acc, analysis, approach, t, env) ==
    IF Len(features) = 0 THEN acc
    ELSE Bind(CategoryStep(acc, Head(features), analysis, approach, t, env),
              LAMBDA next : CategoryLoop(Tail(features), next, analysis, approach, t, env))

\* for (const _category of analysis.suggestedCategories): the same keyword
\* search once per category
RECURSIVE CategoriesLoop(_, _, _, _, _, _)
CategoriesLoop(categories, acc, analysis, approach, t, env) ==
    IF Len(categories) = 0 THEN acc
    ELSE Bind(searchFeatures(analysis.keywords), LAMBDA categoryFeatures :
         Bind(CategoryLoop(categoryFeatures, acc, analysis, approach, t, env),
              LAMBDA next : CategoriesLoop(Tail(categories), next,
                                           analysis, approach, t, env)))

\* the keyword fallback (suggestions.ts 356-362): no approach filter, no score
RECURSIVE FallbackLoop(_, _, _, _)
FallbackLoop(features, acc, t, env) ==
    IF Len(features) = 0 THEN acc
    ELSE LET feature == Head(features)
         IN  Bind(fetchBrowserSupportFromMDN(acc.cache, feature.properties[1],
                                             FALSE, t, env),
                  LAMBDA browserSupport :
             Bind([acc EXCEPT !.cache = browserSupport.cache,
                              !.suggestions =
                                  Append(@, createSuggestionFromFeature(
                                                feature, browserSupport.value))],
                  LAMBDA next : FallbackLoop(Tail(features), next, t, env)))

\* Slice taking the last n elements: slice(-n)
Slice_fromEnd(xs, n) ==
    Bind(xs, LAMBDA v : SubSeq(v, IF Len(v) < n THEN 1 ELSE Len(v) - n + 1, Len(v)))

\* Array.prototype.slice(0, n)
Slice(xs, n) == Bind(xs, LAMBDA v : SubSeq(v, 1, IF Len(v) < n THEN Len(v) ELSE n))

\* a.relevanceScore < b.relevanceScore, for exact ratios
ScoreLess(a, b) ==
    a.relevanceScore.num * b.relevanceScore.den < b.relevanceScore.num * a.relevanceScore.den

\* InsertByScore with the comparator's operands exchanged: ascending order
RECURSIVE InsertByScore_ascending(_, _)
InsertByScore_ascending(sorted, x) ==
    IF Len(sorted) = 0 THEN <<x>>
    ELSE IF ScoreLess(x, Head(sorted)) THEN <<x>> \o sorted
    ELSE <<Head(sorted)>> \o InsertByScore_ascending(Tail(sorted), x)

\* x put into a list sorted by descending score, behind its equals
RECURSIVE InsertByScore(_, _)
InsertByScore(sorted, x) ==
    IF Len(sorted) = 0 THEN <<x>>
    ELSE IF ScoreLess(Head(sorted), x) THEN <<x>> \o sorted
    ELSE <<Head(sorted)>> \o InsertByScore(Tail(sorted), x)

\* Array.prototype.sort with (a, b) => (b.score || 0) - (a.score || 0): stable
RECURSIVE SortByScore(_)
SortByScore(xs) ==
    IF Len(xs) = 0 THEN <<>>
    ELSE Bind(SortByScore(SubSeq(xs, 1, Len(xs) - 1)),
              LAMBDA sorted : InsertByScore(sorted, xs[Len(xs)]))

PhysicalProperties ==
    {"left", "right", "top", "bottom", "width", "height",
     "margin-left", "margin-right", "margin-top", "margin-bottom",
     "padding-left", "padding-right", "padding-top", "padding-bottom"}

IsLogicalProperty(property) == Includes(property, "inline") \/ Includes(property, "block")

\* one pass of the preference reorder: a logical-property suggestion moves
\* ahead of the equal-scored physical-property suggestion just before it
RECURSIVE PreferLogicalPass(_)
PreferLogicalPass(xs) ==
    IF Len(xs) < 2 THEN xs
    ELSE IF /\ xs[1].property \in PhysicalProperties
            /\ IsLogicalProperty(xs[2].property)
            /\ xs[1].relevanceScore = xs[2].relevanceScore
         THEN <<xs[2]>> \o PreferLogicalPass(<<xs[1]>> \o SubSeq(xs, 3, Len(xs)))
         ELSE <<xs[1]>> \o PreferLogicalPass(Tail(xs))

\* logical-unit preference pass: a reorder that keeps every suggestion
rankByLogicalPreference(suggestions) == PreferLogicalPass(suggestions)

\* searchWithIntelligentRanking; survivors is what the category loop kept
searchWithIntelligentRanking(analysis, approach, cache, t, env) ==
    Bind(CategoriesLoop(analysis.suggestedCategories,
                        [cache |-> cache, threw |-> FALSE, suggestions |-> <<>>],
                        analysis, approach, t, env),
         LAMBDA looped :
    Bind(IF looped.threw \/ Len(looped.suggestions) # 0 THEN looped
         ELSE Bind(Slice(searchFeatures(analysis.keywords), 5),
                   LAMBDA fallbackFeatures : FallbackLoop(fallbackFeatures, looped, t, env)),
         LAMBDA filled :
        [threw       |-> filled.threw,
         cache       |-> filled.cache,
         survivors   |-> looped.suggestions,
         suggestions |->
             IF filled.threw THEN <<>>
             ELSE Bind(rankByLogicalPreference(filled.suggestions),
                       LAMBDA logicallyRankedSuggestions :
                           Slice(SortByScore(logicallyRankedSuggestions), 5))]))

\* searchMDNForCSSProperties for a string description
searchMDNForCSSProperties(description, approach, projectContext, cache, t, env) ==
    Bind(analyzeTaskIntent(description, projectContext), LAMBDA analysis :
         searchWithIntelligentRanking(analysis, approach, cache, t, env))

\* { ...suggestion, needs_consent: true }
WithConsent(suggestion) ==
    [property |-> suggestion.property,
     description |-> suggestion.description,
     syntax |-> suggestion.syntax,
     browser_support |-> suggestion.browser_support,
     use_cases |-> suggestion.use_cases,
     mdn_url |-> suggestion.mdn_url,
     scored |-> suggestion.scored,
     relevanceScore |-> suggestion.relevanceScore,
     feature |-> suggestion.feature,
     needs_consent |-> TRUE]

\* the suggest_css_solution tool handler, include_analysis left at its default
SuggestHandler(task_description, preferred_approach, project_context, cache, t, env) ==
    Bind(searchMDNForCSSProperties(task_description, preferred_approach,
                                   project_context, cache, t, env),
         LAMBDA found :
        [response |->
            IF found.threw THEN [kind |-> "error"]
            ELSE IF Len(found.suggestions) = 0
            THEN [kind |-> "result", success |-> FALSE, suggestions |-> <<>>]
            ELSE [kind |-> "result", success |-> TRUE,
                  suggestions |-> [n \in DOMAIN found.suggestions |->
                                      WithConsent(found.suggestions[n])]],
         survivors |-> found.survivors,
         cache |-> found.cache])

(***************************************************************************)
(* Keyword-list search: suggestions.ts, searchLegacyKeywords, which         *)
(* searchMDNForCSSProperties calls when it is given an array.              *)
(***************************************************************************)
\* CSS_FEATURES[key], as a list: empty when the catalog has no such entry
FeatureOf(key) ==
    SelectSeq(CSS_FEATURES, LAMBDA feature : feature.key = key)

\* getCarouselFeatures: [...].filter(Boolean)
getCarouselFeatures ==
    FeatureOf("css-carousel") \o FeatureOf("scroll-snap") \o FeatureOf("flexbox")
        \o FeatureOf("transitions")

\* the suggestion object written out in both loops of searchLegacyKeywords;
\* feature names the catalog entry it came from
LegacySuggestion(feature, browserSupport) ==
    [property |-> feature.properties[1],
     description |-> feature.description,
     syntax |-> getFeatureSyntax(feature.name),
     browser_support |-> SupportSummary(browserSupport),
     use_cases |-> getFeatureUseCases(feature.name),
     mdn_url |-> feature.mdn_url,
     feature |-> feature.key]

\* body of both loops behind the skip test: fetch the support, filter, push
LegacyPush(acc, feature, approach, t, env) ==
    Bind(fetchBrowserSupportFromMDN(acc.cache, feature.properties[1], FALSE, t, env),
         LAMBDA browserSupport :
        [cache |-> browserSupport.cache,
         suggestions |->
             IF shouldIncludeBasedOnApproach(feature.support_level, approach)
             THEN Append(acc.suggestions, LegacySuggestion(feature, browserSupport.value))
             ELSE acc.suggestions])

\* the carousel loop (suggestions.ts 414-433)
RECURSIVE LegacyCarouselLoop(_, _, _, _, _)
LegacyCarouselLoop(features, acc, approach, t, env) ==
    IF Len(features) = 0 THEN acc
    ELSE Bind(LegacyPush(acc, Head(features), approach, t, env),
              LAMBDA next : LegacyCarouselLoop(Tail(features), next, approach, t, env))

\* LegacyMatchStep without the skip
LegacyMatchStep_noSkip(acc, feature, approach, t, env) ==
    LegacyPush(acc, feature, approach, t, env)

\* body of the match loop (suggestions.ts 439-458):
\* if (suggestions.some(s => s.property === feature.properties[0])) continue
LegacyMatchStep(acc, feature, approach, t, env) ==
    IF \E n \in DOMAIN acc.suggestions :
           acc.suggestions[n].property = feature.properties[1]
    THEN acc
    ELSE LegacyPush(acc, feature, approach, t, env)

RECURSIVE LegacyMatchLoop(_, _, _, _, _)
LegacyMatchLoop(features, acc, approach, t, env) ==
    IF Len(features) = 0 THEN acc
    ELSE Bind(LegacyMatchStep(acc, Head(features), approach, t, env),
              LAMBDA next : LegacyMatchLoop(Tail(features), next, approach, t, env))

searchLegacyKeywords(keywords, approach, cache, t, env) ==
    Bind(IF "carousel" \in Range(keywords) \/ "slider" \in Range(keywords)
         THEN LegacyCarouselLoop(getCarouselFeatures,
                                 [cache |-> cache, suggestions |-> <<>>],
                                 approach, t, env)
         ELSE [cache |-> cache, suggestions |-> <<>>],
         LAMBDA carousel :
             LegacyMatchLoop(searchFeatures(keywords), carousel, approach, t, env))

\* searchMDNForCSSProperties for an array description (suggestions.ts 295-297)
searchMDNForCSSPropertiesOfArray(description, approach, projectContext, cache, t, env) ==
    searchLegacyKeywords(description, approach, cache, t, env)

(***************************************************************************)
(* Consent: the confirm_css_property_usage tool of index.ts with the       *)
(* alternatives and guidance tables of services/mdnApi.ts, the guidance    *)
(* table of the css guidance module and the animation guidance module.     *)
(* A guidance object is kept as its basic_usage and its fallbacks; the     *)
(* tables hold the fallbacks an entry lists when they are asked for.       *)
(***************************************************************************)
ALTERNATIVES == <<
    [property |-> "grid", alternatives |-> <<"flexbox", "float", "table-display">>],
    [property |-> "flexbox", alternatives |-> <<"grid", "float", "inline-block">>],
    [property |-> "container-queries", alternatives |-> <<"media-queries", "javascript-based-queries">>],
    [property |-> "animation", alternatives |-> <<"transition", "javascript-animation">>],
    [property |-> "transition", alternatives |-> <<"animation", "javascript-transition">>],
    [property |-> "scroll-snap", alternatives |-> <<"javascript-carousel", "intersection-observer", "scroll-event-listeners">>],
    [property |-> "anchor-positioning", alternatives |-> <<"javascript-positioning", "absolute-positioning", "floating-ui">>],
    [property |-> "css-layers", alternatives |-> <<"bem-methodology", "css-modules", "styled-components">>],
    [property |-> "css-supports", alternatives |-> <<"modernizr", "javascript-feature-detection", "progressive-enhancement">>],
    [property |-> "css-has", alternatives |-> <<"javascript-selectors", "mutation-observer", "parent-class-toggles">>],
    [property |-> "relative-colors", alternatives |-> <<"sass-color-functions", "javascript-color-manipulation", "css-custom-properties">>],
    [property |-> "text-box-trim", alternatives |-> <<"line-height-adjustment", "margin-manipulation", "javascript-text-metrics">>],
    [property |-> "view-transitions", alternatives |-> <<"javascript-animations", "intersection-observer", "css-animations">>],
    [property |-> "container-style-queries", alternatives |-> <<"javascript-computed-styles", "mutation-observer", "css-custom-properties">>],
    [property |-> "color-mix", alternatives |-> <<"sass-mix-function", "javascript-color-manipulation", "css-custom-properties">>],
    [property |-> "css-isolation", alternatives |-> <<"transform-translatez", "will-change", "position-relative-z-index">>],
    [property |-> "details-content", alternatives |-> <<"javascript-accordion", "css-checkbox-hack", "aria-expanded">>],
    [property |-> "grid-template-areas", alternatives |-> <<"grid-line-numbers", "flexbox-layout", "css-positioning">>],
    [property |-> "container-query-units", alternatives |-> <<"viewport-units", "percentage-units", "javascript-resize-observer">>],
    [property |-> "viewport-units", alternatives |-> <<"vh-vw-fallback", "javascript-viewport-detection", "css-custom-properties">>],
    [property |-> "logical-properties", alternatives |-> <<"physical-properties", "css-custom-properties", "postcss-logical">>],
    [property |-> "scroll-behavior", alternatives |-> <<"javascript-smooth-scroll", "scroll-polyfills", "css-scroll-snap">>],
    [property |-> "overflow-behavior", alternatives |-> <<"javascript-scroll-management", "touch-action", "css-scroll-snap">>] >>

RECURSIVE Lookup(_, _)
\* table[property]: the entry of the property, or none
Lookup(table, property) ==
    IF Len(table) = 0 THEN [found |-> FALSE]
    ELSE IF Head(table).property = property
         THEN [found |-> TRUE, value |-> Head(table)]
         ELSE Lookup(Tail(table), property)

\* alternatives[property] || ['flexbox', 'grid', 'javascript-solution']
getAlternativeCSSProperties(property) ==
    LET e == Lookup(ALTERNATIVES, property)
    IN  IF e.found THEN e.value.alternatives
        ELSE <<"flexbox", "grid", "javascript-solution">>

IMPLEMENTATION_GUIDANCE == <<
    [property |-> "flexbox",
     basic_usage |-> "display: flex; justify-content: center; align-items: center;",
     fallbacks |-> <<"Use display: table-cell for older browsers", "Provide float-based layout for IE9 and below">>],
    [property |-> "grid",
     basic_usage |-> "display: grid; grid-template-columns: repeat(auto-fit, minmax(300px, 1fr)); gap: 20px;",
     fallbacks |-> <<"Use flexbox for browsers that don't support grid", "Provide float-based layout for legacy browsers">>],
    [property |-> "scroll-snap",
     basic_usage |-> "scroll-snap-type: x mandatory; scroll-snap-align: start; overflow-x: auto;",
     fallbacks |-> <<"Use JavaScript carousel libraries for older browsers", "Provide arrow navigation buttons">>],
    [property |-> "anchor-positioning",
     basic_usage |-> "anchor-name: --my-anchor; position-anchor: --my-anchor; top: anchor(bottom);",
     fallbacks |-> <<"Use JavaScript positioning libraries like Floating UI", "Use absolute positioning with manual calculations">>],
    [property |-> "css-layers",
     basic_usage |-> "@layer base, components, utilities; @layer components { .button { color: blue; } }",
     fallbacks |-> <<"Use BEM methodology for specificity control", "Use CSS modules or styled-components">>],
    [property |-> "css-supports",
     basic_usage |-> "@supports (display: grid) { .layout { display: grid; } }",
     fallbacks |-> <<"Use Modernizr for older browser support", "Use JavaScript feature detection">>],
    [property |-> "css-has",
     basic_usage |-> ".card:has(img) { border: 1px solid gray; }",
     fallbacks |-> <<"Use JavaScript to add classes based on content", "Use MutationObserver for dynamic content">>],
    [property |-> "relative-colors",
     basic_usage |-> "color: hsl(from var(--primary) h s calc(l * 0.8));",
     fallbacks |-> <<"Use Sass color functions", "Use JavaScript color manipulation libraries", "Pre-define color variations">>],
    [property |-> "text-box-trim",
     basic_usage |-> "text-box-trim: trim-both;",
     fallbacks |-> <<"Adjust line-height and margins manually", "Use JavaScript for text metrics calculation">>],
    [property |-> "grid-repeat",
     basic_usage |-> "grid-template-columns: repeat(auto-fit, minmax(300px, 1fr));",
     fallbacks |-> <<"Use flexbox with flex-basis for similar behavior", "Use JavaScript for dynamic grid sizing">>],
    [property |-> "grid-template-areas",
     basic_usage |-> "grid-template-areas: \"header header\" \"sidebar main\" \"footer footer\";",
     fallbacks |-> <<"Use grid-column and grid-row properties", "Use flexbox for simpler layouts">>],
    [property |-> "view-transitions",
     basic_usage |-> "view-transition-name: main-content; document.startViewTransition(() => updateDOM());",
     fallbacks |-> <<"Use CSS transitions and animations", "Use JavaScript animation libraries">>],
    [property |-> "container-style-queries",
     basic_usage |-> "@container style(--theme: dark) { .component { color: white; } }",
     fallbacks |-> <<"Use JavaScript to detect parent styles", "Use CSS custom properties with manual classes">>],
    [property |-> "color-mix",
     basic_usage |-> "color: color-mix(in srgb, blue 60%, white);",
     fallbacks |-> <<"Use Sass mix() function", "Pre-calculate color variations", "Use JavaScript color libraries">>],
    [property |-> "css-isolation",
     basic_usage |-> "isolation: isolate;",
     fallbacks |-> <<"Use transform: translateZ(0)", "Use will-change: transform", "Use position: relative with z-index">>],
    [property |-> "details-content",
     basic_usage |-> "details::details-content { padding: 1rem; }",
     fallbacks |-> <<"Use JavaScript for accordion functionality", "Use checkbox hack for CSS-only accordions">>],
    [property |-> "container-query-units",
     basic_usage |-> "width: 50cqi; height: 30cqb; font-size: clamp(1rem, 4cqmin, 2rem);",
     fallbacks |-> <<"Use viewport units as fallback", "Use ResizeObserver with CSS custom properties", "Use percentage units">>],
    [property |-> "viewport-units",
     basic_usage |-> "height: 100dvh; width: 100svw; min-height: 100lvh;",
     fallbacks |-> <<"Use traditional vh/vw units", "Use JavaScript for viewport detection", "Use CSS custom properties with JS">>],
    [property |-> "logical-properties",
     basic_usage |-> "margin-block: 1rem; padding-inline: 2rem; border-block-start: 1px solid;",
     fallbacks |-> <<"Use physical properties as fallback", "Use PostCSS Logical plugin", "Use CSS custom properties">>],
    [property |-> "vmin-vmax-units",
     basic_usage |-> "border-radius: 2vmin; width: 80vmax; font-size: clamp(1rem, 3vmin, 2rem);",
     fallbacks |-> <<"Use fixed pixel values", "Use rem with media queries", "Use JavaScript for dynamic sizing">>],
    [property |-> "scroll-behavior",
     basic_usage |-> "scroll-behavior: smooth;",
     fallbacks |-> <<"Use JavaScript smooth scroll polyfill", "Use CSS transitions on scroll position">>],
    [property |-> "overflow-behavior",
     basic_usage |-> "overflow: auto; overscroll-behavior: contain;",
     fallbacks |-> <<"Use touch-action: none", "Use JavaScript scroll management", "Use position: fixed for modals">>] >>

\* getImplementationGuidance listing the fallbacks whether asked for or not
getImplementationGuidance_withFallbacks(property, fallbackNeeded) ==
    LET e == Lookup(IMPLEMENTATION_GUIDANCE, property)
    IN  IF e.found
        THEN [basic_usage |-> e.value.basic_usage, fallbacks |-> e.value.fallbacks]
        ELSE [basic_usage |-> property \o ": value;",
              fallbacks |-> <<"Provide fallback for older browsers">>]

\* guidance[property] || { basic_usage: `${property}: value;`, ... }, with
\* fallbacks: fallbackNeeded ? [...] : [] in every entry
getImplementationGuidance(property, fallbackNeeded) ==
    LET e == Lookup(IMPLEMENTATION_GUIDANCE, property)
    IN  IF e.found
        THEN [basic_usage |-> e.value.basic_usage,
              fallbacks |-> IF fallbackNeeded THEN e.value.fallbacks ELSE <<>>]
        ELSE [basic_usage |-> property \o ": value;",
              fallbacks |-> IF fallbackNeeded
                            THEN <<"Provide fallback for older browsers">> ELSE <<>>]

\* the guidance table of the css guidance module
CSS_GUIDANCE == <<
    [property |-> "overflow-x",
     basic_usage |-> ".carousel { overflow-x: scroll; scroll-snap-type: x mandatory; }",
     fallbacks |-> <<"Use JavaScript for browsers without scroll-snap support", "Provide navigation arrows for non-touch devices", "Add swipe gesture support with touch events">>],
    [property |-> "scroll-snap-type",
     basic_usage |-> ".container { scroll-snap-type: x mandatory; }",
     fallbacks |-> <<"Polyfill for older browsers", "JavaScript-based snapping", "Touch event handling for mobile">>],
    [property |-> "display",
     basic_usage |-> ".container { display: flex; }",
     fallbacks |-> <<"Use float-based layouts for very old browsers", "Provide inline-block fallbacks", "Consider CSS Grid fallbacks">>] >>

\* getImplementationGuidance of the css guidance module
cssGetImplementationGuidance(cssProperty, needsFallback) ==
    LET e == Lookup(CSS_GUIDANCE, cssProperty)
    IN  IF e.found
        THEN [basic_usage |-> e.value.basic_usage,
              fallbacks |-> IF needsFallback THEN e.value.fallbacks ELSE <<>>]
        ELSE [basic_usage |-> cssProperty \o ": value;",
              fallbacks |-> IF needsFallback
                            THEN <<"Provide JavaScript fallback",
                                   "Use progressive enhancement">>
                            ELSE <<>>]

ANIMATION_GUIDANCE == <<
    [property |-> "transition",
     basic_usage |-> ".element { transition: all 0.3s ease; }",
     fallbacks |-> <<"Provide instant state changes for older browsers", "Use JavaScript for complex animations", "Consider CSS feature queries">>],
    [property |-> "animation",
     basic_usage |-> ".element { animation: slideIn 0.5s ease-out; }",
     fallbacks |-> <<"Provide static fallbacks for older browsers", "Use JavaScript for complex animations", "Consider progressive enhancement">>],
    [property |-> "keyframes",
     basic_usage |-> "@keyframes myAnimation { 0% { opacity: 0; } 100% { opacity: 1; } }",
     fallbacks |-> <<"Provide static end states", "Use JavaScript for complex sequences", "Consider CSS feature queries">>],
    [property |-> "animation-timing-function",
     basic_usage |-> ".element { animation-timing-function: ease-in-out; }",
     fallbacks |-> <<"Use linear for older browsers", "Provide simplified timing functions", "Consider JavaScript easing libraries">>],
    [property |-> "@starting-style",
     basic_usage |-> "@starting-style { .element { opacity: 0; } }",
     fallbacks |-> <<"Use JavaScript for older browsers", "Provide instant state changes as fallback", "Consider progressive enhancement">>],
    [property |-> "interpolate-size",
     basic_usage |-> ".element { interpolate-size: allow-keywords; }",
     fallbacks |-> <<"Use fixed dimensions for older browsers", "JavaScript-based height calculations", "CSS Grid/Flexbox alternatives">>],
    [property |-> "scroll-timeline",
     basic_usage |-> ".element { scroll-timeline: myTimeline block; }",
     fallbacks |-> <<"Use Intersection Observer API for older browsers", "JavaScript scroll event listeners", "CSS-only alternatives with viewport units">>],
    [property |-> "view-timeline",
     basic_usage |-> ".element { view-timeline: myView block; }",
     fallbacks |-> <<"Intersection Observer API", "Scroll event listeners with getBoundingClientRect", "CSS animations with delays">>],
    [property |-> "animation-timeline",
     basic_usage |-> ".element { animation-timeline: myTimeline; }",
     fallbacks |-> <<"JavaScript-based scroll animations", "CSS transitions with scroll events", "Static animations as fallback">>],
    [property |-> "animation-range",
     basic_usage |-> ".element { animation-range: entry 0% entry 100%; }",
     fallbacks |-> <<"Full animation duration without ranges", "JavaScript-based range calculations", "CSS custom properties for range values">>],
    [property |-> "view-timeline-inset",
     basic_usage |-> ".element { view-timeline-inset: 100px 50px; }",
     fallbacks |-> <<"JavaScript-based offset calculations", "CSS custom properties for dynamic values", "Default timeline behavior">>],
    [property |-> "timeline-scope",
     basic_usage |-> ".element { timeline-scope: myTimeline; }",
     fallbacks |-> <<"Move timeline declaration to appropriate ancestor", "JavaScript-based timeline management", "Global timeline naming conventions">>] >>

\* getAnimationGuidance: null for a property without an entry
getAnimationGuidance(property, needsFallback) ==
    LET guidance == Lookup(ANIMATION_GUIDANCE, property)
    IN  IF ~guidance.found THEN [found |-> FALSE]
        ELSE [found |-> TRUE,
              value |-> [basic_usage |-> guidance.value.basic_usage,
                         fallbacks |-> IF needsFallback THEN guidance.value.fallbacks
                                       ELSE <<>>]]

\* the confirm_css_property_usage tool handler; fallback_needed is optional
\* and defaults to false
ConfirmUsageHandler(css_property, user_consent, fallback_arg) ==
    LET fallback_needed == IF fallback_arg.given THEN fallback_arg.value ELSE FALSE
    IN  IF ~user_consent
        THEN [message |-> "User declined to use " \o css_property
                             \o ". Consider alternative approaches or JavaScript solutions.",
              alternative_suggestions |-> getAlternativeCSSProperties(css_property)]
        ELSE [message |-> "User confirmed usage of " \o css_property
                             \o ". Here's the implementation guidance:",
              implementation_guidance |->
                  getImplementationGuidance(css_property, fallback_needed),
              css_property |-> css_property,
              approved |-> TRUE]

(***************************************************************************)
(* State.                                                                  *)
(***************************************************************************)
VARIABLES
    clsInput,    \* arguments of the last analyzeTaskIntent call
    clsResult,   \* what it returned
    mdnCache,    \* the module-level Map: cache key -> { data, timestamp }
    clock,       \* the steps the wall clock has made
    calls,       \* the fetchMDNData calls in flight
    tierCalls,   \* how often each fetch tier has been invoked
    sugInput,    \* arguments and environment of the suggest request
    sugOutput,   \* what the suggest handler answered
    srchInput,   \* argument of the last searchFeatures call
    srchOutput,  \* what it returned
    supInput,    \* arguments and environment of the support request
    supOutput,   \* what the support handler answered
    legInput,    \* arguments and environment of the keyword-list search
    legOutput,   \* what it returned
    cnfInput,    \* arguments of the confirm request
    cnfOutput,   \* what the confirm handler answered
    recInput,    \* the support value a recommendation is asked for
    recOutput    \* the recommendation and the safe_to_use flag for it

clsVars == <<clsInput, clsResult>>
cacheVars == <<mdnCache, clock, calls, tierCalls>>
sugVars == <<sugInput, sugOutput>>
srchVars == <<srchInput, srchOutput>>
supVars == <<supInput, supOutput>>
legVars == <<legInput, legOutput>>
cnfVars == <<cnfInput, cnfOutput>>
recVars == <<recInput, recOutput>>
vars == <<clsInput, clsResult, mdnCache, clock, calls, tierCalls, sugInput, sugOutput,
          srchInput, srchOutput, supInput, supOutput, legInput, legOutput,
          cnfInput, cnfOutput, recInput, recOutput>>

\* Date.now()
Now == clock * TickMs

\* the order in which fetchMDNData tries its sources
TierOrder == <<"cache", "tier2", "tier3">>

\* every task description of at most MaxDescWords words
Descriptions ==
    {Join(ws, " ") : ws \in UNION {[1..n -> Words] : n \in 0..MaxDescWords}}

Init ==
    /\ clsInput = [called |-> FALSE]
    /\ clsResult = [called |-> FALSE]
    /\ mdnCache = [k \in {} |-> [data |-> "", timestamp |-> 0]]
    /\ clock = 0
    /\ calls = [c \in CallIds |-> [pc |-> "idle"]]
    /\ tierCalls = [tier2 |-> 0, tier3 |-> 0]
    /\ sugInput = [called |-> FALSE]
    /\ sugOutput = [called |-> FALSE]
    /\ srchInput = [called |-> FALSE]
    /\ srchOutput = [called |-> FALSE]
    /\ supInput = [called |-> FALSE]
    /\ supOutput = [called |-> FALSE]
    /\ legInput = [called |-> FALSE]
    /\ legOutput = [called |-> FALSE]
    /\ cnfInput = [called |-> FALSE]
    /\ cnfOutput = [called |-> FALSE]
    /\ recInput = [called |-> FALSE]
    /\ recOutput = [called |-> FALSE]

(***************************************************************************)
(* The classifier called on its own.                                       *)
(***************************************************************************)
Analyze(description, projectContext) ==
    /\ UNCHANGED <<legVars, cnfVars, recVars, srchVars, supVars, cacheVars, sugVars>>
    /\ ~clsInput.called
    /\ clsInput' = [called |-> TRUE, description |-> description,
                    projectContext |-> projectContext]
    /\ clsResult' = [called |-> TRUE,
                     value |-> analyzeTaskIntent(description, projectContext)]

\* the caller drops the result; the classifier keeps no state between calls
AnalyzeReturn ==
    /\ UNCHANGED <<legVars, cnfVars, recVars, srchVars, supVars, cacheVars, sugVars>>
    /\ clsInput.called
    /\ clsInput' = [called |-> FALSE]
    /\ clsResult' = [called |-> FALSE]

NextIntent ==
    \/ \E d \in Descriptions, c \in ProjectContexts : Analyze(d, c)
    \/ AnalyzeReturn

SpecIntent == Init /\ [][NextIntent]_vars

(***************************************************************************)
(* fetchMDNData, one step per await.  A call records, for the claims, the  *)
(* cache entry it found when it was made (found), when it was made         *)
(* (startedAt) and each source it tried with what came of it (trace).      *)
(***************************************************************************)
Found(cssProperty) ==
    IF cacheKey(cssProperty) \in DOMAIN mdnCache
    THEN [present |-> TRUE, entry |-> mdnCache[cacheKey(cssProperty)]]
    ELSE [present |-> FALSE]

\* the call finds a valid entry and returns its data (mdnClient.ts 27-32)
InvokeHit(c, cssProperty) ==
    /\ calls[c].pc = "idle"
    /\ tierCalls.tier2 + tierCalls.tier3 < MaxInvocations
    /\ CacheHit(mdnCache, cssProperty, Now)
    /\ calls' = [calls EXCEPT ![c] =
            [pc |-> "done", cssProperty |-> cssProperty,
             found |-> Found(cssProperty), startedAt |-> Now,
             trace |-> << [tier |-> "cache", outcome |-> "hit",
                           value |-> mdnCache[cacheKey(cssProperty)].data] >>,
             result |-> mdnCache[cacheKey(cssProperty)].data]]
    /\ UNCHANGED <<legVars, cnfVars, recVars, srchVars, supVars, mdnCache, clock, tierCalls, clsVars, sugVars>>

\* no valid entry: the call enters fetchFromContext7 (mdnClient.ts 27-36)
InvokeMiss(c, cssProperty) ==
    /\ calls[c].pc = "idle"
    /\ tierCalls.tier2 + tierCalls.tier3 < MaxInvocations
    /\ ~CacheHit(mdnCache, cssProperty, Now)
    /\ calls' = [calls EXCEPT ![c] =
            [pc |-> "tier2", cssProperty |-> cssProperty,
             found |-> Found(cssProperty), startedAt |-> Now,
             trace |-> << [tier |-> "cache", outcome |-> "miss",
                           value |-> [kind |-> "none"]] >>,
             result |-> [kind |-> "none"]]]
    /\ tierCalls' = [tierCalls EXCEPT !.tier2 = @ + 1]
    /\ UNCHANGED <<legVars, cnfVars, recVars, srchVars, supVars, mdnCache, clock, clsVars, sugVars>>

\* Tier2Succeeds keeping an entry that another call wrote since this call began
Tier2Succeeds_firstWriteWins(c, c7) ==
    /\ calls[c].pc = "tier2"
    /\ LET r == fetchFromContext7(calls[c].cssProperty, c7)
           k == cacheKey(calls[c].cssProperty)
       IN  /\ r.ok
           /\ mdnCache' = IF k \in DOMAIN mdnCache /\ Found(calls[c].cssProperty) # calls[c].found
                          THEN mdnCache
                          ELSE CacheSet(mdnCache, calls[c].cssProperty, r.value, Now)
           /\ calls' = [calls EXCEPT ![c] =
                  [@ EXCEPT !.pc = "done",
                            !.trace = Append(@, [tier |-> "tier2", outcome |-> "ok",
                                                 value |-> r.value]),
                            !.result = r.value]]
    /\ UNCHANGED <<legVars, cnfVars, recVars, srchVars, supVars, clock, tierCalls, clsVars, sugVars>>

\* fetchFromContext7 resolves: the value is cached and returned (38-40)
Tier2Succeeds(c, c7) ==
    /\ calls[c].pc = "tier2"
    /\ LET r == fetchFromContext7(calls[c].cssProperty, c7)
       IN  /\ r.ok
           /\ mdnCache' = CacheSet(mdnCache, calls[c].cssProperty, r.value, Now)
           /\ calls' = [calls EXCEPT ![c] =
                  [@ EXCEPT !.pc = "done",
                            !.trace = Append(@, [tier |-> "tier2", outcome |-> "ok",
                                                 value |-> r.value]),
                            !.result = r.value]]
    /\ UNCHANGED <<legVars, cnfVars, recVars, srchVars, supVars, clock, tierCalls, clsVars, sugVars>>

\* Tier2Fails without the fallback: the error goes to the caller
Tier2Fails_noFallback(c, c7) ==
    /\ calls[c].pc = "tier2"
    /\ LET r == fetchFromContext7(calls[c].cssProperty, c7)
       IN  /\ ~r.ok
           /\ calls' = [calls EXCEPT ![c] =
                  [@ EXCEPT !.pc = "failed",
                            !.trace = Append(@, [tier |-> "tier2", outcome |-> "fail",
                                                 value |-> r.value]),
                            !.result = r.value]]
    /\ UNCHANGED <<legVars, cnfVars, recVars, srchVars, supVars, mdnCache, clock, tierCalls, clsVars, sugVars>>

\* fetchFromContext7 rejects: the catch calls fetchMDNPageDirect (41-44)
Tier2Fails(c, c7) ==
    /\ calls[c].pc = "tier2"
    /\ LET r == fetchFromContext7(calls[c].cssProperty, c7)
       IN  /\ ~r.ok
           /\ calls' = [calls EXCEPT ![c] =
                  [@ EXCEPT !.pc = "tier3",
                            !.trace = Append(@, [tier |-> "tier2", outcome |-> "fail",
                                                 value |-> r.value])]]
    /\ tierCalls' = [tierCalls EXCEPT !.tier3 = @ + 1]
    /\ UNCHANGED <<legVars, cnfVars, recVars, srchVars, supVars, mdnCache, clock, clsVars, sugVars>>

\* the direct fetch answers with a page, which is returned as it is (44)
Tier3Succeeds(c, net) ==
    /\ calls[c].pc = "tier3"
    /\ LET r == fetchMDNPageDirect(calls[c].cssProperty, net)
       IN  /\ r.ok
           /\ calls' = [calls EXCEPT ![c] =
                  [@ EXCEPT !.pc = "done",
                            !.trace = Append(@, [tier |-> "tier3", outcome |-> "ok",
                                                 value |-> r.value]),
                            !.result = r.value]]
    /\ UNCHANGED <<legVars, cnfVars, recVars, srchVars, supVars, mdnCache, clock, tierCalls, clsVars, sugVars>>

\* Tier3Fails storing the error under the property's key
Tier3Fails_cachesError(c, net) ==
    /\ calls[c].pc = "tier3"
    /\ LET r == fetchMDNPageDirect(calls[c].cssProperty, net)
       IN  /\ ~r.ok
           /\ mdnCache' = CacheSet(mdnCache, calls[c].cssProperty, r.value, Now)
           /\ calls' = [calls EXCEPT ![c] =
                  [@ EXCEPT !.pc = "failed",
                            !.trace = Append(@, [tier |-> "tier3", outcome |-> "fail",
                                                 value |-> r.value]),
                            !.result = r.value]]
    /\ UNCHANGED <<legVars, cnfVars, recVars, srchVars, supVars, clock, tierCalls, clsVars, sugVars>>

\* the direct fetch fails: fetchMDNData rejects (44, 336-339)
Tier3Fails(c, net) ==
    /\ calls[c].pc = "tier3"
    /\ LET r == fetchMDNPageDirect(calls[c].cssProperty, net)
       IN  /\ ~r.ok
           /\ calls' = [calls EXCEPT ![c] =
                  [@ EXCEPT !.pc = "failed",
                            !.trace = Append(@, [tier |-> "tier3", outcome |-> "fail",
                                                 value |-> r.value]),
                            !.result = r.value]]
    /\ UNCHANGED <<legVars, cnfVars, recVars, srchVars, supVars, mdnCache, clock, tierCalls, clsVars, sugVars>>

\* the caller has taken the result
CallReturn(c) ==
    /\ calls[c].pc \in {"done", "failed"}
    /\ calls' = [calls EXCEPT ![c] = [pc |-> "idle"]]
    /\ UNCHANGED <<legVars, cnfVars, recVars, srchVars, supVars, mdnCache, clock, tierCalls, clsVars, sugVars>>

\* time passes
Tick ==
    /\ clock < MaxTicks
    /\ clock' = clock + 1
    /\ UNCHANGED <<legVars, cnfVars, recVars, srchVars, supVars, mdnCache, calls, tierCalls, clsVars, sugVars>>

NextCache ==
    \/ \E c \in CallIds, p \in CacheProperties : InvokeHit(c, p)
    \/ \E c \in CallIds, p \in CacheProperties : InvokeMiss(c, p)
    \/ \E c \in CallIds, c7 \in Context7Outcomes : Tier2Succeeds(c, c7)
    \/ \E c \in CallIds, c7 \in Context7Outcomes : Tier2Fails(c, c7)
    \/ \E c \in CallIds, net \in DirectOutcomes : Tier3Succeeds(c, net)
    \/ \E c \in CallIds, net \in DirectOutcomes : Tier3Fails(c, net)
    \/ \E c \in CallIds : CallReturn(c)
    \/ Tick

SpecCache == Init /\ [][NextCache]_vars

(***************************************************************************)
(* One prose request to the suggest tool.                                  *)
(***************************************************************************)
\* the task descriptions given to the suggest tool: no intent, one intent,
\* two intents; few and many matching features
SuggestDescriptions ==
    {"", "modal", "border", "center", "responsive", "transition",
     "center modal", "modal border", "center border", "border responsive",
     "carousel animation"}

Approaches == {"modern", "compatible", "progressive"}

PrimaryProperties == {CSS_FEATURES[i].properties[1] : i \in DOMAIN CSS_FEATURES}

\* the context7 tool is missing, or answers with a text, or rejects for one
\* property or for all of them; the network is up or down
SuggestEnvs ==
    { [c7 |-> [kind |-> "absent"], throwsFor |-> {}, net |-> "ok"],
      [c7 |-> [kind |-> "content",
               content |-> [id |-> "mdn:v1", syntax |-> "", browsers |-> <<90, 88, 14>>]],
       throwsFor |-> {}, net |-> "ok"],
      [c7 |-> [kind |-> "absent"], throwsFor |-> {"::scroll-button()"},
       net |-> "network-error"],
      [c7 |-> [kind |-> "absent"], throwsFor |-> PrimaryProperties, net |-> "ok"],
      [c7 |-> [kind |-> "absent"], throwsFor |-> PrimaryProperties, net |-> "not-ok"] }

Suggest(task_description, preferred_approach, project_context, env) ==
    /\ ~sugInput.called
    /\ \E cache \in {mdnCache}, t \in {Now} :
       \E out \in {SuggestHandler(task_description, preferred_approach,
                                  project_context, cache, t, env)} :
           /\ sugInput' = [called |-> TRUE,
                           task_description |-> task_description,
                           preferred_approach |-> preferred_approach,
                           project_context |-> project_context,
                           env |-> env, cache |-> mdnCache, t |-> Now]
           /\ sugOutput' = [called |-> TRUE, delivered |-> FALSE,
                            response |-> out.response,
                            survivors |-> out.survivors]
           /\ mdnCache' = out.cache
    /\ UNCHANGED <<legVars, cnfVars, recVars, srchVars, supVars, clock, calls, tierCalls, clsVars>>

\* the host takes the answer
SuggestReturn ==
    /\ sugInput.called
    /\ ~sugOutput.delivered
    /\ sugOutput' = [sugOutput EXCEPT !.delivered = TRUE]
    /\ UNCHANGED <<legVars, cnfVars, recVars, srchVars, supVars, sugInput, cacheVars, clsVars>>

NextSuggest ==
    \/ \E d \in SuggestDescriptions, a \in Approaches, c \in ProjectContexts,
          env \in SuggestEnvs : Suggest(d, a, c, env)
    \/ SuggestReturn

SpecSuggest == Init /\ [][NextSuggest]_vars

(***************************************************************************)
(* searchFeatures called on its own.                                       *)
(***************************************************************************)
SearchKeywords ==
    {"", "flex", "GRID", "Scroll-Snap", "layouts display", "container",
     "@media", "zzz"}

\* every keyword list of at most MaxKeywords keywords
KeywordLists == UNION {[1..n -> SearchKeywords] : n \in 0..MaxKeywords}

Search(keywords) ==
    /\ ~srchInput.called
    /\ srchInput' = [called |-> TRUE, keywords |-> keywords]
    /\ srchOutput' = [called |-> TRUE, delivered |-> FALSE,
                      value |-> searchFeatures(keywords)]
    /\ UNCHANGED <<legVars, cnfVars, recVars, clsVars, cacheVars, sugVars, supVars>>

\* the caller takes the list
SearchReturn ==
    /\ srchInput.called
    /\ ~srchOutput.delivered
    /\ srchOutput' = [srchOutput EXCEPT !.delivered = TRUE]
    /\ UNCHANGED <<legVars, cnfVars, recVars, srchInput, clsVars, cacheVars, sugVars, supVars>>

NextSearch ==
    \/ \E keywords \in KeywordLists : Search(keywords)
    \/ SearchReturn

SpecSearch == Init /\ [][NextSearch]_vars

(***************************************************************************)
(* Requests to the check_css_browser_support tool, one after the other,    *)
(* while time passes.  doc is what fetchMDNData does for the request.      *)
(***************************************************************************)
SupportProperties == {"display", "container-type", "inset-inline"}

SupportEnvs ==
    {[c7 |-> c7, throwsFor |-> {}, net |-> net] :
        c7 \in Context7Outcomes, net \in DirectOutcomes}

CheckSupport(css_property, include_experimental, env) ==
    /\ ~supInput.called
    /\ tierCalls.tier2 + tierCalls.tier3 < MaxInvocations
    /\ \E doc \in {fetchMDNData(mdnCache, css_property, Now, env)},
          out \in {CheckSupportHandler(css_property, include_experimental,
                                       mdnCache, Now, env)} :
           LET hit   == CacheHit(mdnCache, css_property, Now)
               tier2 == fetchFromContext7(css_property, C7For(env, css_property))
           IN  /\ supInput' = [called |-> TRUE, css_property |-> css_property,
                               include_experimental |-> include_experimental,
                               env |-> env]
               /\ supOutput' = [called |-> TRUE, response |-> out.response,
                                doc |-> [hit |-> hit, ok |-> doc.ok]]
               /\ mdnCache' = out.cache
               /\ tierCalls' =
                      [tier2 |-> tierCalls.tier2 + (IF hit THEN 0 ELSE 1),
                       tier3 |-> tierCalls.tier3 + (IF hit \/ tier2.ok THEN 0 ELSE 1)]
    /\ UNCHANGED <<legVars, cnfVars, recVars, clock, calls, clsVars, sugVars, srchVars>>

\* the host takes the answer
SupportReturn ==
    /\ supInput.called
    /\ supInput' = [called |-> FALSE]
    /\ supOutput' = [called |-> FALSE]
    /\ UNCHANGED <<legVars, cnfVars, recVars, cacheVars, clsVars, sugVars, srchVars>>

NextSupport ==
    \/ \E p \in SupportProperties, e \in BOOLEAN, env \in SupportEnvs :
           CheckSupport(p, e, env)
    \/ SupportReturn
    \/ Tick

SpecSupport == Init /\ [][NextSupport]_vars

(***************************************************************************)
(* Claims about the classifier, checked under SpecIntent.                  *)
(***************************************************************************)
RECURSIVE SumOver(_, _)
SumOver(f, n) == IF n = 0 THEN 0 ELSE f[n] + SumOver(f, n - 1)

\* the patterns of one category that match a description
MatchingPatterns(config, description) ==
    {i \in DOMAIN config.patterns : PatternTest(config.patterns[i], description)}

TotalMatching(description) ==
    SumOver([i \in DOMAIN INTENT_PATTERNS |->
                Cardinality(MatchingPatterns(INTENT_PATTERNS[i], description))],
            Len(INTENT_PATTERNS))

TotalPatternCount ==
    SumOver([i \in DOMAIN INTENT_PATTERNS |-> Len(INTENT_PATTERNS[i].patterns)],
            Len(INTENT_PATTERNS))

Reversed(seq) == [i \in DOMAIN seq |-> seq[Len(seq) + 1 - i]]
Rotated(seq)  == [i \in DOMAIN seq |-> seq[(i % Len(seq)) + 1]]

\* other orders in which the category table could be iterated
TableOrders ==
    {Reversed(INTENT_PATTERNS), Rotated(INTENT_PATTERNS),
     Rotated(Rotated(Reversed(INTENT_PATTERNS)))}

\* C9: every confidence returned by analyzeTaskIntent lies in [0, 1], and the
\* empty description yields confidence 0 and no intent.
C9_ConfidenceInUnitInterval ==
    clsResult.called =>
        LET r == clsResult.value
        IN  /\ r.confidence.den > 0
            /\ 0 <= r.confidence.num
            /\ r.confidence.num <= r.confidence.den
            /\ clsInput.description = "" =>
                   r.confidence.num = 0 /\ r.intent = <<>>

C9_Witness ==
    /\ clsResult.called
    /\ clsInput.description = ""
    /\ clsResult.value.confidence.num = 0
    /\ clsResult.value.intent = <<>>

\* C10: an intent label is returned iff a pattern of its category matches; the
\* confidence is the number of matching patterns of all categories over the
\* number of patterns of all categories; and the label set and the confidence
\* are the same whatever order the categories are iterated in.
C10_ClassifierRule ==
    clsResult.called =>
        LET r == clsResult.value
            d == clsInput.description
        IN  /\ \A i \in DOMAIN INTENT_PATTERNS :
                   (INTENT_PATTERNS[i].type \in Range(r.intent))
                       <=> (MatchingPatterns(INTENT_PATTERNS[i], d) # {})
            /\ r.confidence.den > 0
            /\ r.confidence.num * TotalPatternCount
                   = TotalMatching(d) * r.confidence.den
            /\ \A table \in TableOrders :
                   LET o == AnalyzeWith(table, d, clsInput.projectContext)
                   IN  /\ Range(o.intent) = Range(r.intent)
                       /\ o.confidence.num * r.confidence.den
                              = r.confidence.num * o.confidence.den

C10_Witness ==
    /\ clsResult.called
    /\ Len(clsResult.value.intent) >= 2
    /\ Len(clsResult.value.intent) < Len(INTENT_PATTERNS)
    /\ clsResult.value.confidence.num >= 3

(***************************************************************************)
(* Claims about fetchMDNData, checked under SpecCache.                     *)
(***************************************************************************)
ActiveCalls == {c \in CallIds : calls[c].pc # "idle"}

\* the call was made while a stored entry for its property was younger
\* than the TTL
MadeWithinTTL(c) ==
    /\ calls[c].found.present
    /\ calls[c].startedAt - calls[c].found.entry.timestamp < CACHE_TTL

\* the call was made when the stored entry's TTL had elapsed
MadeAfterTTL(c) ==
    /\ calls[c].found.present
    /\ calls[c].startedAt - calls[c].found.entry.timestamp >= CACHE_TTL

LastAttempt(c) == calls[c].trace[Len(calls[c].trace)]

\* C1: a call made while the stored entry of its property is younger than
\* the TTL returns exactly the stored payload, and tries neither tier 2 nor
\* tier 3.
C1_CacheRoundTrip ==
    \A c \in ActiveCalls :
        MadeWithinTTL(c) =>
            /\ calls[c].pc = "done"
            /\ calls[c].result = calls[c].found.entry.data
            /\ calls[c].trace = << [tier |-> "cache", outcome |-> "hit",
                                    value |-> calls[c].found.entry.data] >>

\* an entry stored by tier 2 is asked for again later, before it expires
C1_Witness ==
    \E c \in ActiveCalls :
        /\ MadeWithinTTL(c)
        /\ calls[c].found.entry.data.kind = "parsed"
        /\ calls[c].startedAt > calls[c].found.entry.timestamp
        /\ calls[c].pc = "done"

\* C2: a call made after the stored entry's TTL has elapsed misses the
\* cache, tries the tiers, and when it succeeds the cache holds an entry for
\* the property that was stored no earlier than the call was made.
C2_CacheExpiry ==
    \A c \in ActiveCalls :
        MadeAfterTTL(c) =>
            /\ calls[c].trace[1].outcome = "miss"
            /\ calls[c].pc = "done" =>
                 /\ Len(calls[c].trace) > 1
                 /\ mdnCache[cacheKey(calls[c].cssProperty)].timestamp
                        >= calls[c].startedAt

\* C3: the sources are tried in the order cache, tier 2, tier 3; a source
\* is tried only after every earlier one missed or failed in the same call;
\* the chain goes on until a source succeeds or all have failed; the value
\* returned is that of the source that succeeded.
C3_TierOrdering ==
    \A c \in ActiveCalls :
        LET trace == calls[c].trace
            n == Len(trace)
        IN  /\ n \in 1..Len(TierOrder)
            /\ \A i \in 1..n : trace[i].tier = TierOrder[i]
            /\ \A i \in 1..(n - 1) : trace[i].outcome \in {"miss", "fail"}
            /\ calls[c].pc = "done" =>
                 /\ trace[n].outcome \in {"hit", "ok"}
                 /\ calls[c].result = trace[n].value
            /\ calls[c].pc = "failed" =>
                 /\ n = Len(TierOrder)
                 /\ trace[n].outcome = "fail"
            /\ calls[c].pc = "tier2" => n = 1 /\ trace[1].outcome = "miss"
            /\ calls[c].pc = "tier3" => n = 2 /\ trace[2].outcome = "fail"

\* a call that missed the cache and failed in tier 2 returns tier 3's page
C3_Witness ==
    \E c \in ActiveCalls :
        /\ calls[c].pc = "done"
        /\ Len(calls[c].trace) = 3
        /\ calls[c].result.kind = "page"

\* C4: once a call has resolved its property in tier 2 or tier 3, the cache
\* holds an entry under the property's key, stored no earlier than the call
\* was made.
C4_CachePopulation ==
    \A c \in ActiveCalls :
        (calls[c].pc = "done" /\ LastAttempt(c).tier \in {"tier2", "tier3"}) =>
            /\ cacheKey(calls[c].cssProperty) \in DOMAIN mdnCache
            /\ mdnCache[cacheKey(calls[c].cssProperty)].timestamp
                   >= calls[c].startedAt

(***************************************************************************)
(* Claims about the suggest tool, checked under SpecSuggest.               *)
(***************************************************************************)
\* the catalog entries a response's suggestions came from
ReturnedFeatures(response) ==
    IF response.kind = "result"
    THEN {response.suggestions[n].feature : n \in DOMAIN response.suggestions}
    ELSE {}

\* what the request of this state returns when made with another approach
ReturnedWith(approach) ==
    IF approach = sugInput.preferred_approach
    THEN ReturnedFeatures(sugOutput.response)
    ELSE ReturnedFeatures(
             SuggestHandler(sugInput.task_description, approach,
                            sugInput.project_context, sugInput.cache,
                            sugInput.t, sugInput.env).response)

FeatureByKey(key) ==
    CSS_FEATURES[CHOOSE i \in DOMAIN CSS_FEATURES : CSS_FEATURES[i].key = key]

AllowedTiers(approach) ==
    CASE approach = "compatible"  -> {"excellent"}
      [] approach = "modern"      -> {"excellent", "good", "experimental"}
      [] approach = "progressive" ->
            {"excellent", "good", "moderate", "limited", "experimental"}

\* the keyword search's candidates for the request of this state
RequestCandidates == searchFeatures(extractLegacyKeywords(sugInput.task_description))

\* every documentation tier fails for this property in the request's environment
AllTiersFail(cssProperty) ==
    /\ ~CacheHit(sugInput.cache, cssProperty, sugInput.t)
    /\ cssProperty \in sugInput.env.throwsFor
    /\ sugInput.env.net # "ok"

\* C5: when every documentation tier fails for the primary property of one
\* candidate of a request, while another candidate is allowed by the
\* approach and its documentation can be fetched, the request still answers
\* with a successful result that includes that other candidate.
C5_ErrorIsolation ==
    sugInput.called =>
        \A candidates \in {RequestCandidates} :
        \A n, m \in DOMAIN candidates :
            (/\ AllTiersFail(candidates[n].properties[1])
             /\ ~AllTiersFail(candidates[m].properties[1])
             /\ candidates[m].support_level \in AllowedTiers(sugInput.preferred_approach)
             /\ Len(candidates) <= 5)
            => /\ sugOutput.response.kind = "result"
               /\ sugOutput.response.success
               /\ candidates[m].key \in ReturnedFeatures(sugOutput.response)

\* C6: with no documentation fetch failing, what a request returns with
\* approach compatible is among what it returns with modern, and that is
\* among what it returns with progressive.
C6_ApproachMonotone ==
    (sugInput.called /\ sugInput.env.throwsFor = {})
    => /\ ReturnedWith("compatible") \subseteq ReturnedWith("modern")
       /\ ReturnedWith("modern") \subseteq ReturnedWith("progressive")

\* C7: every suggestion returned for a prose request comes from a catalog
\* feature whose support tier the approach allows.
C7_ApproachTierFilter ==
    sugInput.called
    => \A key \in ReturnedFeatures(sugOutput.response) :
           FeatureByKey(key).support_level \in AllowedTiers(sugInput.preferred_approach)

\* C8: the handler always answers with a payload, and when the approach
\* filter left no candidate its result has success = false and no suggestion.
C8_EmptyResult ==
    sugInput.called
    => /\ sugOutput.response.kind \in {"result", "error"}
       /\ (sugOutput.response.kind = "result" /\ sugOutput.survivors = <<>>)
          => /\ ~sugOutput.response.success
             /\ sugOutput.response.suggestions = <<>>

(***************************************************************************)
(* Claims about ranking, checked under SpecSuggest.                        *)
(***************************************************************************)
\* how often a catalog feature occurs in a list of suggestions
CountOf(suggestions, key) ==
    Cardinality({n \in DOMAIN suggestions : suggestions[n].feature = key})

CatalogIndex(key) == CHOOSE i \in DOMAIN CSS_FEATURES : CSS_FEATURES[i].key = key

\* the catalog positions of the entries one of the keywords occurs in
Matches(keywords) ==
    {i \in DOMAIN CSS_FEATURES :
        \E k \in DOMAIN keywords :
            Includes(toLowerCase(CSS_FEATURES[i].name \o " "
                                    \o CSS_FEATURES[i].description \o " "
                                    \o Join(CSS_FEATURES[i].properties, " ")),
                     toLowerCase(keywords[k]))}

\* C11: the list returned for a prose request has at most 5 suggestions, and
\* when candidates survived the approach filter it is made of survivors and
\* no survivor that was left out has a strictly higher relevance score than
\* a suggestion that was returned.
C11_Truncation ==
    (sugInput.called /\ sugOutput.response.kind = "result") =>
        LET returned  == sugOutput.response.suggestions
            survivors == sugOutput.survivors
        IN  /\ Len(returned) <= 5
            /\ survivors # <<>> =>
                 /\ Len(returned) = (IF Len(survivors) < 5 THEN Len(survivors) ELSE 5)
                 /\ \A r \in DOMAIN returned :
                        CountOf(returned, returned[r].feature)
                            <= CountOf(survivors, returned[r].feature)
                 /\ \A s \in DOMAIN survivors :
                        CountOf(survivors, survivors[s].feature)
                            > CountOf(returned, survivors[s].feature)
                        => \A r \in DOMAIN returned :
                               ~ScoreLess(returned[r], survivors[s])

\* more than 5 candidates survived, and one with a lower score was left out
C11_Witness ==
    /\ sugInput.called
    /\ sugOutput.response.kind = "result"
    /\ Len(sugOutput.survivors) > 5
    /\ Len(sugOutput.response.suggestions) = 5
    /\ \E s \in DOMAIN sugOutput.survivors :
           /\ CountOf(sugOutput.survivors, sugOutput.survivors[s].feature)
                  > CountOf(sugOutput.response.suggestions, sugOutput.survivors[s].feature)
           /\ ScoreLess(sugOutput.survivors[s], sugOutput.response.suggestions[1])

\* C12: in the list returned for a prose request no suggestion comes before
\* a suggestion with a strictly higher relevance score.
C12_ScoreOrder ==
    (sugInput.called /\ sugOutput.response.kind = "result") =>
        LET returned == sugOutput.response.suggestions
        IN  \A i, j \in DOMAIN returned :
                i < j => ~ScoreLess(returned[i], returned[j])

\* scored suggestions of different scores are returned, the higher first
C12_Witness ==
    /\ sugInput.called
    /\ sugOutput.response.kind = "result"
    /\ \E i, j \in DOMAIN sugOutput.response.suggestions :
           /\ i < j
           /\ sugOutput.response.suggestions[i].scored
           /\ sugOutput.response.suggestions[j].scored
           /\ ScoreLess(sugOutput.response.suggestions[j],
                        sugOutput.response.suggestions[i])

\* the additive part of the scoring rule, term by term
IntentCategoryPairs ==
    {<<"layout", "layout">>, <<"animation", "animation">>, <<"spacing", "logical">>}

FrameworkAffinities == {<<"react", "flex">>, <<"tailwind", "grid">>}

RuleBase(feature, analysis) ==
      10 * Cardinality({p \in IntentCategoryPairs :
                           p[1] \in Range(analysis.intent) /\ feature.category = p[2]})
    + (CASE feature.support_level = "excellent" -> 5
         [] feature.support_level = "good" -> 3
         [] OTHER -> 0)
    + 3 * Cardinality({a \in FrameworkAffinities :
                          a[1] \in Range(analysis.frameworkHints)
                              /\ a[2] \in Range(feature.properties)})

EquivalentPair(a, b) ==
    \/ a.property \in PhysicalProperties /\ IsLogicalProperty(b.property)
    \/ b.property \in PhysicalProperties /\ IsLogicalProperty(a.property)

\* C14: two returned suggestions of equal relevance score that are not a
\* logical/physical pair appear in catalog iteration order.
C14_TieBreaking ==
    (sugInput.called /\ sugOutput.response.kind = "result") =>
        LET returned == sugOutput.response.suggestions
        IN  \A i, j \in DOMAIN returned :
                (/\ i < j
                 /\ ~ScoreLess(returned[i], returned[j])
                 /\ ~ScoreLess(returned[j], returned[i])
                 /\ ~EquivalentPair(returned[i], returned[j]))
                => CatalogIndex(returned[i].feature) <= CatalogIndex(returned[j].feature)

C16_SearchExact ==
    srchOutput.called =>
        \A matches \in {Matches(srchInput.keywords)} :
            LET r == srchOutput.value
            IN  /\ \A n \in DOMAIN r : \E i \in matches : r[n] = CSS_FEATURES[i]
                /\ \A i \in matches :
                       Cardinality({n \in DOMAIN r : r[n] = CSS_FEATURES[i]}) = 1
                /\ \A n, m \in DOMAIN r :
                       n < m => CatalogIndex(r[n].key) < CatalogIndex(r[m].key)
                /\ srchInput.keywords = <<>> => r = <<>>

\* an upper-case keyword finds its entry, next to a keyword that finds none
C16_Witness ==
    /\ srchOutput.called
    /\ srchInput.keywords = <<"zzz", "GRID">>
    /\ Len(srchOutput.value) = 1
    /\ srchOutput.value[1].key = "grid"

(***************************************************************************)
(* Claims about check_css_browser_support, checked under SpecSupport.      *)
(***************************************************************************)
\* C17: a support request with include_experimental = false is answered
\* with an empty experimental_features list, whether the documentation was
\* resolved or not.
C17_NoExperimentalUnlessAsked ==
    (supOutput.called /\ ~supInput.include_experimental) =>
        /\ supOutput.response.kind = "result"
        /\ supOutput.response.browser_support.experimental_features = <<>>

\* a property that has experimental features, asked for without them, on
\* the path where the documentation could not be fetched
C17_Witness ==
    /\ supOutput.called
    /\ ~supInput.include_experimental
    /\ supInput.css_property = "container-type"
    /\ ~supOutput.doc.ok
    /\ supOutput.response.kind = "result"

\* the static support table, for the properties asked for
StaticSupportTable == ("display" :> 98) @@ ("container-type" :> 75)

\* C18: for a property of the static support table a support request
\* reports the table's value as overall_support (98 for display).
C18_StaticSupportValue ==
    (supOutput.called /\ supInput.css_property \in DOMAIN StaticSupportTable) =>
        /\ supOutput.response.kind = "result"
        /\ supOutput.response.browser_support.overall_support
               = StaticSupportTable[supInput.css_property]

\* C19: a support request is always answered with a support value; when the
\* cache misses and tier 2 and tier 3 both fail, the value is the static
\* one: the table's percentage (80 for a property not in the table) and the
\* default browser entries.
C19_SupportNeverFails ==
    supOutput.called =>
        /\ supOutput.response.kind = "result"
        /\ (~supOutput.doc.hit /\ ~supOutput.doc.ok) =>
               /\ supOutput.response.browser_support.overall_support
                      = (IF supInput.css_property \in DOMAIN StaticSupportTable
                         THEN StaticSupportTable[supInput.css_property] ELSE 80)
               /\ supOutput.response.browser_support.browsers
                      = [chrome |-> "90+", firefox |-> "88+",
                         safari |-> "14+", edge |-> "90+"]

\* every tier failed for container-type and its static value is reported
C19_Witness ==
    /\ supOutput.called
    /\ ~supOutput.doc.hit
    /\ ~supOutput.doc.ok
    /\ supInput.env.c7.kind = "throws"
    /\ supInput.env.net = "network-error"
    /\ supOutput.response.kind = "result"
    /\ supOutput.response.browser_support.overall_support = 75

(***************************************************************************)
(* Claim about a failed fetchMDNData call, checked under SpecCache.        *)
(***************************************************************************)
\* C20: a call whose tier 2 and tier 3 both fail ends with an error for its
\* property, none of its steps writes or removes a cache entry or touches
\* another call, and a request for the same property made after the
\* failure, with no valid entry stored, goes to the tiers again.
C20_FailureLeavesCache ==
    [][\A c \in CallIds :
          /\ (calls[c].pc = "tier2" /\ calls'[c].pc = "tier3") => mdnCache' = mdnCache
          /\ (calls[c].pc = "tier3" /\ calls'[c].pc = "failed") =>
                 /\ mdnCache' = mdnCache
                 /\ calls'[c].result = [kind |-> "error",
                                        property |-> calls[c].cssProperty]
                 /\ \A d \in CallIds \ {c} : calls'[d] = calls[d]
          /\ calls[c].pc = "failed" =>
                 \A d \in CallIds \ {c} :
                     (/\ calls[d].pc = "idle"
                      /\ calls'[d].pc # "idle"
                      /\ calls'[d].cssProperty = calls[c].cssProperty
                      /\ ~CacheHit(mdnCache, calls[c].cssProperty, Now))
                     => /\ calls'[d].pc = "tier2"
                        /\ tierCalls'.tier2 = tierCalls.tier2 + 1
      ]_vars

\* a call has failed in tier 3, nothing is stored for its property, and a
\* later call for the same property is in tier 2
C20_Witness ==
    \E c, d \in CallIds :
        /\ calls[c].pc = "failed"
        /\ Len(calls[c].trace) = 3
        /\ calls[d].pc = "tier2"
        /\ calls[d].cssProperty = calls[c].cssProperty
        /\ calls[d].startedAt > calls[c].startedAt
        /\ cacheKey(calls[c].cssProperty) \notin DOMAIN mdnCache

(***************************************************************************)
(* Claims about tier 2 and the cache under interleaved fetchMDNData calls, *)
(* checked under SpecCache.                                                *)
(***************************************************************************)
\* C21: tier 2 never fails: whatever the context7 tool does (not installed,
\* answers without content, its fetch rejects), the tier-2 step of a call
\* ends ok, with the parsed documentation or the static development payload
\* of the call's property.
C21_StaticFallback ==
    \A c \in CallIds :
        calls[c].pc # "idle" =>
            \A i \in DOMAIN calls[c].trace :
                calls[c].trace[i].tier = "tier2" =>
                    /\ calls[c].trace[i].outcome = "ok"
                    /\ calls[c].trace[i].value \in
                           {callContext7MCP(calls[c].cssProperty)} \cup
                           {parseContext7Response(d, calls[c].cssProperty) :
                                d \in ExternalDocs}

\* C22: the cache only changes by a whole write of a call leaving tier 2 with
\* a value: the entry of its property becomes that value together with the
\* time of the write, no entry is removed, and every such write lands, so
\* the entry left behind is the one written last.
C22_LastWriteWins ==
    [][/\ DOMAIN mdnCache \subseteq DOMAIN mdnCache'
       /\ \A k \in DOMAIN mdnCache' :
              (k \notin DOMAIN mdnCache \/ mdnCache'[k] # mdnCache[k]) =>
                  \E c \in CallIds :
                      /\ calls[c].pc = "tier2"
                      /\ calls'[c].pc = "done"
                      /\ k = cacheKey(calls[c].cssProperty)
                      /\ mdnCache'[k] = [data |-> calls'[c].result, timestamp |-> Now]
       /\ \A c \in CallIds :
              (calls[c].pc = "tier2" /\ calls'[c].pc = "done") =>
                  /\ cacheKey(calls[c].cssProperty) \in DOMAIN mdnCache'
                  /\ mdnCache'[cacheKey(calls[c].cssProperty)]
                         = [data |-> calls'[c].result, timestamp |-> Now]
      ]_vars

\* two calls for one property were in tier 2 together, got different values,
\* and the entry holds the value of the one that wrote after the other
C22_Witness ==
    \E c, d \in CallIds :
        /\ c # d
        /\ calls[c].pc = "done"
        /\ calls[d].pc = "done"
        /\ calls[c].cssProperty = calls[d].cssProperty
        /\ Len(calls[c].trace) = 2
        /\ Len(calls[d].trace) = 2
        /\ ~calls[c].found.present
        /\ ~calls[d].found.present
        /\ calls[c].result # calls[d].result
        /\ cacheKey(calls[d].cssProperty) \in DOMAIN mdnCache
        /\ mdnCache[cacheKey(calls[d].cssProperty)].data = calls[d].result
        /\ mdnCache[cacheKey(calls[d].cssProperty)].timestamp > calls[c].startedAt

\* C23: a step of a fetchMDNData call for p decides hit or miss from the
\* entry of p alone, returns that entry's data on a hit, and leaves the
\* entry of every other key as it was, adding no key but p's.
C23_OtherEntriesUntouched ==
    [][\A c \in CallIds :
          calls'[c] # calls[c] =>
              \A p \in {IF calls[c].pc = "idle" THEN calls'[c].cssProperty
                        ELSE calls[c].cssProperty} :
                  /\ \A k \in DOMAIN mdnCache \ {cacheKey(p)} :
                         /\ k \in DOMAIN mdnCache'
                         /\ mdnCache'[k] = mdnCache[k]
                  /\ DOMAIN mdnCache' \subseteq DOMAIN mdnCache \cup {cacheKey(p)}
                  /\ calls[c].pc = "idle" =>
                         /\ calls'[c].found = Found(p)
                         /\ IF /\ cacheKey(p) \in DOMAIN mdnCache
                               /\ Now - mdnCache[cacheKey(p)].timestamp < CACHE_TTL
                            THEN /\ calls'[c].pc = "done"
                                 /\ calls'[c].result = mdnCache[cacheKey(p)].data
                            ELSE calls'[c].pc = "tier2"
      ]_vars

\* the entries of both properties are stored, written at different times, and
\* a call for one of them has just written its entry
C23_Witness ==
    \E c \in CallIds :
        /\ calls[c].pc = "done"
        /\ Len(calls[c].trace) = 2
        /\ \A p \in CacheProperties : cacheKey(p) \in DOMAIN mdnCache
        /\ \E q \in CacheProperties \ {calls[c].cssProperty} :
               mdnCache[cacheKey(q)].timestamp
                   < mdnCache[cacheKey(calls[c].cssProperty)].timestamp
        /\ mdnCache[cacheKey(calls[c].cssProperty)].data = calls[c].result

(***************************************************************************)
(* The classifier called on descriptions that reach the nested keyword     *)
(* rules and the framework indicators.                                     *)
(***************************************************************************)
ExtractWords ==
    {"Full", "height", "mobile", "header", "sticky", "menu", "scroll",
     "transition", "useState", "form"}

\* every description of at most MaxDescWords words of ExtractWords
ExtractDescriptions ==
    {Join(ws, " ") : ws \in UNION {[1..n -> ExtractWords] : n \in 0..MaxDescWords}}

NextExtract ==
    \/ \E d \in ExtractDescriptions, c \in ProjectContexts : Analyze(d, c)
    \/ AnalyzeReturn

SpecExtract == Init /\ [][NextExtract]_vars

(***************************************************************************)
(* Claims about keyword extraction and framework hints, checked under      *)
(* SpecExtract.                                                            *)
(***************************************************************************)
\* the rules of the keyword extractor on a lower-cased description d, each
\* with its whole condition and the tokens it contributes
KeywordRules(d) ==
    LET has(x) == Includes(d, x)
    IN  { [cond |-> has(cssProperties[i]), tokens |-> {cssProperties[i]}] :
              i \in DOMAIN cssProperties }
        \cup
        { [cond |-> has("full") /\ has("height"),
           tokens |-> {"height", "100vh", "100dvh", "dvh", "svh", "lvh", "block-size",
                       "min-height"}],
          [cond |-> has("mobile") \/ has("phone"),
           tokens |-> {"dvh", "svh", "lvh", "mobile-viewport", "browser-ui", "@media"}],
          [cond |-> (has("mobile") \/ has("phone"))
                        /\ (has("height") \/ has("screen") \/ has("full")),
           tokens |-> {"100dvh", "height", "block-size", "viewport-height"}],
          [cond |-> has("header"), tokens |-> {"header"}],
          [cond |-> has("header") /\ (has("stick") \/ has("fix")),
           tokens |-> {"sticky", "fixed", "position"}],
          [cond |-> has("header") /\ (has("full") \/ has("height")),
           tokens |-> {"height", "min-height", "dvh", "100dvh"}],
          [cond |-> has("center") \/ has("align"),
           tokens |-> {"center", "align", "justify-content", "align-items", "flex", "grid"}],
          [cond |-> has("carousel") \/ has("slider") \/ has("gallery"),
           tokens |-> {"scroll-snap-type", "overflow-inline", "scroll-behavior",
                       "::scroll-marker", "::scroll-button", "flex"}],
          [cond |-> has("theme") \/ has("dark") \/ has("light"),
           tokens |-> {"light-dark", "color-scheme", "prefers-color-scheme", "@media"}],
          [cond |-> has("form"), tokens |-> {"form"}],
          [cond |-> has("form") /\ (has("valid") \/ has("error")),
           tokens |-> {":user-valid", ":user-invalid", ":invalid", ":valid"}],
          [cond |-> has("modal") \/ has("dialog") \/ has("popup"),
           tokens |-> {"dialog", ":target", "position", "fixed", "backdrop-filter"}],
          [cond |-> has("nav") \/ has("menu"), tokens |-> {"nav", "menu"}],
          [cond |-> (has("nav") \/ has("menu")) /\ (has("hamburger") \/ has("mobile")),
           tokens |-> {":checked", "position", "transform"}],
          [cond |-> has("animate") \/ has("transition"),
           tokens |-> {"animation", "transition", "@keyframes"}],
          [cond |-> (has("animate") \/ has("transition")) /\ has("scroll"),
           tokens |-> {"scroll-timeline", "animation-timeline"}],
          [cond |-> has("responsive") \/ has("breakpoint"),
           tokens |-> {"@media", "container", "clamp", "min", "max"}],
          [cond |-> has("always"), tokens |-> {"min-height", "100%", "vh", "dvh"}],
          [cond |-> has("section"), tokens |-> {"section", "height", "min-height"}],
          [cond |-> has("device"), tokens |-> {"dvh", "svh", "@media", "viewport"}] }

\* C24: the keywords of an analysis are exactly the tokens of the rules whose
\* condition holds on the lower-cased description, each token once; the
\* empty description has no keyword.
C24_KeywordUnion ==
    clsResult.called =>
        \A ks \in {clsResult.value.keywords} :
            /\ Range(ks) = UNION {r.tokens :
                   r \in {q \in KeywordRules(toLowerCase(clsInput.description)) : q.cond}}
            /\ \A i, j \in DOMAIN ks : ks[i] = ks[j] => i = j
            /\ clsInput.description = "" => ks = <<>>

\* "mobile menu": the mobile rule, the menu rule and the rule nested in the
\* menu rule fire, and the tokens they share are listed once
C24_Witness ==
    /\ clsResult.called
    /\ clsInput.description = "mobile menu"
    /\ clsResult.value.keywords =
           <<"dvh", "svh", "lvh", "mobile-viewport", "browser-ui", "@media",
             "nav", "menu", ":checked", "position", "transform">>

\* C25: a description containing an indicator string of a framework has that
\* framework among the hints; the hints are these frameworks together with
\* the context analyzer's framework and css framework, and no name twice.
C25_FrameworkHints ==
    clsResult.called =>
        \A hints \in {clsResult.value.frameworkHints} :
            /\ \A e \in Range(FRAMEWORK_INDICATORS) :
                   (\E s \in Range(e.indicators) : Includes(clsInput.description, s))
                       => e.framework \in Range(hints)
            /\ \A h \in Range(hints) :
                   \/ h \in {analyzeProjectContext(clsInput.projectContext).framework,
                             analyzeProjectContext(clsInput.projectContext).cssFramework}
                   \/ \E e \in Range(FRAMEWORK_INDICATORS) :
                          /\ e.framework = h
                          /\ \E s \in Range(e.indicators) :
                                 Includes(clsInput.description, s)
            /\ \A i, j \in DOMAIN hints : hints[i] = hints[j] => i = j

(***************************************************************************)
(* Claim about repeated suggestions in a prose answer, checked under       *)
(* SpecSuggest.                                                            *)
(***************************************************************************)
\* C29: the suggestions of one answer to a prose request come from pairwise
\* different catalog features, however many categories were suggested.
C29_OneSuggestionPerFeature ==
    (sugOutput.called /\ sugOutput.response.kind = "result") =>
        \A ss \in {sugOutput.response.suggestions} :
            \A i, j \in DOMAIN ss : ss[i].feature = ss[j].feature => i = j

(***************************************************************************)
(* The recommendation and the safe_to_use flag computed for a given        *)
(* support value.                                                          *)
(***************************************************************************)
\* an overall_support value is a percentage
MaxSupport == 100

SupportValues == 0..MaxSupport

\* the handler's result for css_property with support information of value v
Recommend(css_property, v) ==
    /\ ~recInput.called
    /\ recInput' = [called |-> TRUE, css_property |-> css_property,
                    overall_support |-> v]
    /\ recOutput' = [called |-> TRUE,
                     value |-> SupportResult(css_property,
                                   [overall_support |-> v,
                                    browsers |-> DefaultBrowsers,
                                    experimental_features |-> <<>>,
                                    source |-> "static"])]
    /\ UNCHANGED <<clsVars, cacheVars, sugVars, srchVars, supVars, legVars, cnfVars>>

\* the host takes the answer
RecommendReturn ==
    /\ recInput.called
    /\ recInput' = [called |-> FALSE]
    /\ recOutput' = [called |-> FALSE]
    /\ UNCHANGED <<clsVars, cacheVars, sugVars, srchVars, supVars, legVars, cnfVars>>

NextRecommend ==
    \/ \E p \in SupportProperties, v \in SupportValues : Recommend(p, v)
    \/ RecommendReturn

SpecRecommend == Init /\ [][NextRecommend]_vars

(***************************************************************************)
(* Claim about the support levels, checked under SpecRecommend.            *)
(***************************************************************************)
\* the first word of a recommendation text
LevelOf(recommendation) ==
    CHOOSE w \in {"Excellent", "Good", "Moderate", "Limited"} :
        Len(recommendation) >= Len(w) /\ SubSeq(recommendation, 1, Len(w)) = w

\* C27: for every support value the recommendation is the Excellent text iff
\* the value is at least 95, Good iff 85 to 94, Moderate iff 70 to 84 and
\* Limited iff below 70, and safe_to_use is true iff the value is at least 80.
C27_SupportLevels ==
    recOutput.called =>
        \A v \in {recInput.overall_support} :
        \A level \in {LevelOf(recOutput.value.recommendation)} :
            /\ level = "Excellent" <=> v >= 95
            /\ level = "Good" <=> (v >= 85 /\ v <= 94)
            /\ level = "Moderate" <=> (v >= 70 /\ v <= 84)
            /\ level = "Limited" <=> v < 70
            /\ recOutput.value.safe_to_use <=> v >= 80

\* a value on a threshold: 85 is Good and safe to use
C27_Witness ==
    /\ recOutput.called
    /\ recInput.overall_support = 85
    /\ LevelOf(recOutput.value.recommendation) = "Good"
    /\ recOutput.value.safe_to_use

(***************************************************************************)
(* Confirm requests, and the guidance modules asked on their own.          *)
(***************************************************************************)
\* the properties of the guidance and alternatives tables, and one more
ConfirmProperties ==
    {IMPLEMENTATION_GUIDANCE[i].property : i \in DOMAIN IMPLEMENTATION_GUIDANCE}
        \cup {ALTERNATIVES[i].property : i \in DOMAIN ALTERNATIVES}
        \cup {CSS_GUIDANCE[i].property : i \in DOMAIN CSS_GUIDANCE}
        \cup {ANIMATION_GUIDANCE[i].property : i \in DOMAIN ANIMATION_GUIDANCE}
        \cup {"text-wrap"}

\* fallback_needed: z.boolean().optional()
FallbackArgs ==
    {[given |-> FALSE]} \cup {[given |-> TRUE, value |-> b] : b \in BOOLEAN}

Confirm(css_property, user_consent, fallback_arg) ==
    /\ ~cnfInput.called
    /\ cnfInput' = [called |-> TRUE, tool |-> "confirm",
                    css_property |-> css_property,
                    user_consent |-> user_consent,
                    fallback_needed |-> fallback_arg.given /\ fallback_arg.value]
    /\ cnfOutput' = [called |-> TRUE,
                     response |-> ConfirmUsageHandler(css_property, user_consent,
                                                      fallback_arg)]
    /\ UNCHANGED <<clsVars, cacheVars, sugVars, srchVars, supVars, legVars, recVars>>

\* the guidance of the css guidance module and of the animation module
Guide(property, needsFallback) ==
    /\ ~cnfInput.called
    /\ cnfInput' = [called |-> TRUE, tool |-> "guidance",
                    css_property |-> property,
                    fallback_needed |-> needsFallback]
    /\ cnfOutput' = [called |-> TRUE,
                     css |-> cssGetImplementationGuidance(property, needsFallback),
                     animation |-> getAnimationGuidance(property, needsFallback)]
    /\ UNCHANGED <<clsVars, cacheVars, sugVars, srchVars, supVars, legVars, recVars>>

\* the host takes the answer
ConfirmReturn ==
    /\ cnfInput.called
    /\ cnfInput' = [called |-> FALSE]
    /\ cnfOutput' = [called |-> FALSE]
    /\ UNCHANGED <<clsVars, cacheVars, sugVars, srchVars, supVars, legVars, recVars>>

NextConfirm ==
    \/ \E p \in ConfirmProperties, consent \in BOOLEAN, f \in FallbackArgs :
           Confirm(p, consent, f)
    \/ \E p \in ConfirmProperties, f \in BOOLEAN : Guide(p, f)
    \/ ConfirmReturn

SpecConfirm == Init /\ [][NextConfirm]_vars

(***************************************************************************)
(* Claim about the confirm tool, checked under SpecConfirm.                *)
(***************************************************************************)
\* C26: a declined confirm request is answered with alternative suggestions
\* and no guidance; a consented one with guidance and approved = TRUE and no
\* alternatives; and whenever fallback_needed is false (or left out) the
\* fallbacks of the guidance are empty, in the handler's answer and in the
\* guidance modules.
C26_ConfirmUsage ==
    cnfOutput.called =>
        /\ (cnfInput.tool = "confirm" /\ ~cnfInput.user_consent) =>
               /\ "alternative_suggestions" \in DOMAIN cnfOutput.response
               /\ Len(cnfOutput.response.alternative_suggestions) > 0
               /\ "implementation_guidance" \notin DOMAIN cnfOutput.response
               /\ "approved" \notin DOMAIN cnfOutput.response
        /\ (cnfInput.tool = "confirm" /\ cnfInput.user_consent) =>
               /\ "implementation_guidance" \in DOMAIN cnfOutput.response
               /\ cnfOutput.response.approved = TRUE
               /\ cnfOutput.response.css_property = cnfInput.css_property
               /\ "alternative_suggestions" \notin DOMAIN cnfOutput.response
               /\ ~cnfInput.fallback_needed =>
                      cnfOutput.response.implementation_guidance.fallbacks = <<>>
        /\ (cnfInput.tool = "guidance" /\ ~cnfInput.fallback_needed) =>
               /\ cnfOutput.css.fallbacks = <<>>
               /\ cnfOutput.animation.found =>
                      cnfOutput.animation.value.fallbacks = <<>>

\* a consented request for flexbox that leaves fallback_needed out: guidance
\* from the table, without fallbacks
C26_Witness ==
    /\ cnfOutput.called
    /\ cnfInput.tool = "confirm"
    /\ cnfInput.user_consent
    /\ ~cnfInput.fallback_needed
    /\ cnfInput.css_property = "flexbox"
    /\ cnfOutput.response.approved
    /\ cnfOutput.response.implementation_guidance.basic_usage
           = "display: flex; justify-content: center; align-items: center;"
    /\ cnfOutput.response.implementation_guidance.fallbacks = <<>>

(***************************************************************************)
(* One keyword-list request to searchMDNForCSSProperties.                  *)
(***************************************************************************)
\* the keyword lists given: none, the carousel words as written and
\* capitalised, words matching one or several features, and a word matching
\* nothing
LegacyKeywordLists ==
    { <<>>, <<"carousel">>, <<"slider">>, <<"Carousel">>, <<"flex">>, <<"grid">>,
      <<"flex", "grid">>, <<"carousel", "grid">>, <<"slider", "gradient">>,
      <<"GRID", "carousel">>, <<"container", "@media">>, <<"zzz">> }

\* the tool is not installed and the network answers; the tool's fetch
\* rejects and the network is down
LegacyEnvs ==
    { [throwsFor |-> {}, c7 |-> [kind |-> "absent"], net |-> "ok"],
      [throwsFor |-> {}, c7 |-> [kind |-> "throws"], net |-> "network-error"] }

LegacySearch(keywords, approach, projectContext, env) ==
    /\ ~legInput.called
    /\ \E cache \in {mdnCache}, t \in {Now} :
       \E out \in {searchMDNForCSSPropertiesOfArray(keywords, approach, projectContext,
                                                    cache, t, env)} :
           /\ legInput' = [called |-> TRUE, keywords |-> keywords,
                           approach |-> approach,
                           projectContext |-> projectContext,
                           env |-> env, cache |-> mdnCache, t |-> Now]
           /\ legOutput' = [called |-> TRUE, delivered |-> FALSE,
                            suggestions |-> out.suggestions]
           /\ mdnCache' = out.cache
    /\ UNCHANGED <<clsVars, clock, calls, tierCalls, sugVars, srchVars, supVars,
                   cnfVars, recVars>>

\* the caller takes the list
LegacyReturn ==
    /\ legInput.called
    /\ ~legOutput.delivered
    /\ legOutput' = [legOutput EXCEPT !.delivered = TRUE]
    /\ UNCHANGED <<legInput, clsVars, cacheVars, sugVars, srchVars, supVars,
                   cnfVars, recVars>>

NextLegacy ==
    \/ \E keywords \in LegacyKeywordLists, a \in Approaches, c \in ProjectContexts,
          env \in LegacyEnvs : LegacySearch(keywords, a, c, env)
    \/ LegacyReturn

SpecLegacy == Init /\ [][NextLegacy]_vars

(***************************************************************************)
(* Claims about the keyword-list search, checked under SpecLegacy.         *)
(***************************************************************************)
\* the features of a list a given approach keeps, as catalog keys
KeptKeys(features, approach) ==
    LET kept == SelectSeq(features, LAMBDA feature :
                    shouldIncludeBasedOnApproach(feature.support_level, approach))
    IN  [n \in DOMAIN kept |-> kept[n].key]

\* C28: a keyword-list request is answered without classification or score:
\* the answer is the same for every project context, and it lists the
\* carousel features the approach keeps (when the list has 'carousel' or
\* 'slider'), then the search matches the approach keeps that are not
\* already listed, in catalog order.
C28_LegacyOverload ==
    legOutput.called =>
        \A ss \in {legOutput.suggestions} :
            /\ \A c \in ProjectContexts :
                   searchMDNForCSSPropertiesOfArray(
                       legInput.keywords, legInput.approach, c,
                       legInput.cache, legInput.t, legInput.env).suggestions = ss
            /\ \A n \in DOMAIN ss : "relevanceScore" \notin DOMAIN ss[n]
            /\ \A carousel \in
                   {IF "carousel" \in Range(legInput.keywords)
                       \/ "slider" \in Range(legInput.keywords)
                    THEN KeptKeys(getCarouselFeatures, legInput.approach)
                    ELSE <<>>} :
                   [n \in DOMAIN ss |-> ss[n].feature]
                       = carousel \o SelectSeq(
                             KeptKeys(searchFeatures(legInput.keywords),
                                      legInput.approach),
                             LAMBDA key : key \notin Range(carousel))

=============================================================================
